---- MODULE Spec2Model ----
(***************************************************************************)
(* Context-compacting coding agent: the compactor (compactMessages), the   *)
(* message store (saveMessage / loadMessages / saveCompactedMessages) and  *)
(* the per-user-turn retry loop of main().                                 *)
(*                                                                         *)
(* Text is modelled as a sequence of one-character strings, so that        *)
(* toLowerCase, includes, trim and template concatenation are computed.    *)
(* A turn (CoreMessage) is a record [role, content]; a stored row is a     *)
(* record [sequence, role, content]; the table is kept in rowid order.     *)
(*                                                                         *)
(* The specifications of the module:                                       *)
(*   Spec          the agent loop of main() of src/index.ts and the store, *)
(*   SpecFault     the same loop with storage calls that throw,            *)
(*   SpecLive      the same loop when every call of chat() comes back,     *)
(*   SpecCompact   compactMessages applied to bounded inputs,              *)
(*   SpecStore     store operations interleaved at their await points,     *)
(*   SpecSerial    store calls made one after another,                     *)
(*   SpecChat      one call of chat(),                                     *)
(*   SpecDocker    calls of ensureDockerContainer,                         *)
(*   SpecEstimate  estimateTokens and shouldCompact(messages),             *)
(*   SpecV1        the agent loop of main() of src/unnamed/part_001,       *)
(*   SpecFaultV1   that loop with storage calls that throw.                *)
(***************************************************************************)
EXTENDS Integers, Sequences, FiniteSets, TLC

VARIABLES
    \* ---- agent loop (main) ----
    pc,              \* position of main(): "ask", "chat", "exited", "crashed"
    store,           \* rows of the messages table, in rowid order
    sessions,        \* sessions table: session id -> [updatedAt]
    messages,        \* in-memory working list of main()
    attempt,         \* loop variable of the retry loop
    lastInputTokens, \* main()'s lastInputTokens
    containerId,     \* main()'s containerId
    userTurns,       \* number of user turns started (bounded)
    log,             \* calls made during the current user turn, in call order
    fault,           \* the storage call that threw during the current user turn, if any
    \* ---- compactMessages on its own ----
    cPhase,          \* "input" before the call, "returned" after it
    cMessages,       \* argument messages
    cKeepLast,       \* argument keepLast
    cOutcome,        \* what the summarization request does if it is issued
    cResult,         \* returned list
    cRequest,        \* summarization requests issued by the call
    \* ---- store operations at await granularity ----
    spc,             \* per caller: position inside its store operation
    sArg,            \* per caller: arguments of its operation
    sLocal,          \* per caller: local variables (nextSequence, i, result)
    sPrior,          \* per saveCompactedMessages call not overlapped by a writing call: the session's rows when it began
    sOverlap,        \* per saveCompactedMessages call: another writing call was in flight meanwhile
    sOps,            \* number of store operations started (bounded)
    \* ---- store operations one after another, with failing writes ----
    qLast,           \* the last call made: arguments, tables before it, outcome
    qOps,            \* number of calls made (bounded)
    \* ---- chat() on its own ----
    chatPc,          \* "request" inside the while loop, "returned", "thrown"
    currentMsgs,     \* chat()'s currentMsgs
    fullResponse,    \* chat()'s fullResponse
    totalInput,      \* chat()'s totalInput
    totalOutput,     \* chat()'s totalOutput
    chatContainerId, \* chat()'s containerId parameter
    requests,        \* the messages of every request sent, in order
    responses,       \* every response received, with the tool results computed for it
    execs,           \* every execInContainer call made: container and outcome
    \* ---- ensureDockerContainer on its own ----
    dContainer,      \* the container named CONTAINER_NAME: [id, status]
    dRecords,        \* rows of the docker_containers table, in rowid order
    dNextId,         \* id the next created container gets
    dProc,           \* the calls in progress: locals and awaited statement of each process
    dLast,           \* the last thing that happened: a call and its outcome, or a change of the container
    dPrev,           \* the thing that happened before it
    dCalls,          \* number of calls made (bounded)
    dFaults,         \* commands and statements that failed of themselves, exits and removals of the container (bounded)
    dOverlapped,     \* the sessions for which two calls of ensureDockerContainer have been in progress at once
    \* ---- estimateTokens / shouldCompact on their own ----
    ePhase,          \* "input" before the calls, "returned" after them
    eA,              \* a turn list, each turn given by its role and the length of its content
    eB,              \* another turn list
    eOut             \* estimateTokens and shouldCompact of both lists

dbVars == <<store, sessions>>
agentVars == <<pc, messages, attempt, lastInputTokens, containerId, userTurns, log, fault>>
compactVars == <<cPhase, cMessages, cKeepLast, cOutcome, cResult, cRequest>>
storeVars == <<spc, sArg, sLocal, sPrior, sOverlap, sOps>>
serialVars == <<qLast, qOps>>
chatVars == <<chatPc, currentMsgs, fullResponse, totalInput, totalOutput,
              chatContainerId, requests, responses, execs>>
dockerVars == <<dContainer, dRecords, dNextId, dProc, dLast, dPrev, dCalls, dFaults, dOverlapped>>
fnVars == <<ePhase, eA, eB, eOut>>
auxVars == <<serialVars, chatVars, dockerVars, fnVars>>
vars == <<dbVars, agentVars, compactVars, storeVars, auxVars>>

----------------------------------------------------------------------------
(* Bounds of the model                                                     *)

MaxLen == 4          \* longest turn list handed to compactMessages on its own
MaxKeep == 3         \* largest keepLast handed to compactMessages on its own
MaxUserTurns == 3    \* user turns per run of the agent loop
MaxHistory == 6      \* longest saved history a run of the agent loop resumes
MaxOps == 3          \* store operations started in SpecStore
MaxBatch == 2        \* longest list handed to saveCompactedMessages in SpecStore
MaxFaults == 1       \* most storage calls that throw in one run of SpecFault
MaxRequests == 3     \* requests sent by one call of chat()
MaxEnsures == 2      \* calls of ensureDockerContainer in SpecDocker
MaxEstTurns == 2     \* longest turn list handed to estimateTokens
MaxToolTurns == 1    \* user turns in which chat() runs tools
MaxDockerFaults == 1 \* failing commands and statements, exits and removals of the container in SpecDocker

----------------------------------------------------------------------------
(* Text helpers                                                            *)

Max(a, b) == IF a >= b THEN a ELSE b
Min(a, b) == IF a <= b THEN a ELSE b

\* Array.prototype.slice(start, end) for integer arguments (-0 is 0).
JsSlice(s, start, end) ==
    LET n == Len(s)
        k == IF start < 0 THEN Max(n + start, 0) ELSE Min(start, n)
        f == IF end < 0 THEN Max(n + end, 0) ELSE Min(end, n)
    IN  IF k >= f THEN <<>> ELSE SubSeq(s, k + 1, f)

\* Array.prototype.filter
Filter(s, Keep(_)) == SelectSeq(s, Keep)

IsSystem(m) == m.role = "system"
NotSystem(m) == m.role # "system"

\* String.prototype.toLowerCase follows the case mapping of the Unicode
\* standard (tables of Unicode 17.0).  The tables below hold the characters a
\* string of this module can hold: code points up to U+00FF but the grave
\* accent, and those of the Basic Multilingual Plane whose low byte is 80 or
\* more.

\* <<upper, lower>> for each character whose lower-case form is another
\* character; capital sigma is in ToLowerCase
LowerCasePairs ==
    {<<"A","a">>,<<"B","b">>,<<"C","c">>,<<"D","d">>,<<"E","e">>,<<"F","f">>,
     <<"G","g">>,<<"H","h">>,<<"I","i">>,<<"J","j">>,<<"K","k">>,<<"L","l">>,
     <<"M","m">>,<<"N","n">>,<<"O","o">>,<<"P","p">>,<<"Q","q">>,<<"R","r">>,
     <<"S","s">>,<<"T","t">>,<<"U","u">>,<<"V","v">>,<<"W","w">>,<<"X","x">>,
     <<"Y","y">>,<<"Z","z">>,<<"À","à">>,<<"Á","á">>,<<"Â","â">>,<<"Ã","ã">>,
     <<"Ä","ä">>,<<"Å","å">>,<<"Æ","æ">>,<<"Ç","ç">>,<<"È","è">>,<<"É","é">>,
     <<"Ê","ê">>,<<"Ë","ë">>,<<"Ì","ì">>,<<"Í","í">>,<<"Î","î">>,<<"Ï","ï">>,
     <<"Ð","ð">>,<<"Ñ","ñ">>,<<"Ò","ò">>,<<"Ó","ó">>,<<"Ô","ô">>,<<"Õ","õ">>,
     <<"Ö","ö">>,<<"Ø","ø">>,<<"Ù","ù">>,<<"Ú","ú">>,<<"Û","û">>,<<"Ü","ü">>,
     <<"Ý","ý">>,<<"Þ","þ">>,<<"Ƃ","ƃ">>,<<"Ƅ","ƅ">>,<<"Ƈ","ƈ">>,<<"Ƌ","ƌ">>,
     <<"Ǝ","ǝ">>,<<"Ƒ","ƒ">>,<<"Ƙ","ƙ">>,<<"Ơ","ơ">>,<<"Ƣ","ƣ">>,<<"Ƥ","ƥ">>,
     <<"Ʀ","ʀ">>,<<"Ƨ","ƨ">>,<<"Ʃ","ʃ">>,<<"Ƭ","ƭ">>,<<"Ʈ","ʈ">>,<<"Ư","ư">>,
     <<"Ʊ","ʊ">>,<<"Ʋ","ʋ">>,<<"Ƴ","ƴ">>,<<"Ƶ","ƶ">>,<<"Ʒ","ʒ">>,<<"Ƹ","ƹ">>,
     <<"Ƽ","ƽ">>,<<"Ǆ","ǆ">>,<<"ǅ","ǆ">>,<<"Ǉ","ǉ">>,<<"ǈ","ǉ">>,<<"Ǌ","ǌ">>,
     <<"ǋ","ǌ">>,<<"Ǎ","ǎ">>,<<"Ǐ","ǐ">>,<<"Ǒ","ǒ">>,<<"Ǔ","ǔ">>,<<"Ǖ","ǖ">>,
     <<"Ǘ","ǘ">>,<<"Ǚ","ǚ">>,<<"Ǜ","ǜ">>,<<"Ǟ","ǟ">>,<<"Ǡ","ǡ">>,<<"Ǣ","ǣ">>,
     <<"Ǥ","ǥ">>,<<"Ǧ","ǧ">>,<<"Ǩ","ǩ">>,<<"Ǫ","ǫ">>,<<"Ǭ","ǭ">>,<<"Ǯ","ǯ">>,
     <<"Ǳ","ǳ">>,<<"ǲ","ǳ">>,<<"Ǵ","ǵ">>,<<"Ƕ","ƕ">>,<<"Ƿ","ƿ">>,<<"Ǹ","ǹ">>,
     <<"Ǻ","ǻ">>,<<"Ǽ","ǽ">>,<<"Ǿ","ǿ">>,<<"Ά","ά">>,<<"Έ","έ">>,<<"Ή","ή">>,
     <<"Ί","ί">>,<<"Ό","ό">>,<<"Ύ","ύ">>,<<"Ώ","ώ">>,<<"Α","α">>,<<"Β","β">>,
     <<"Γ","γ">>,<<"Δ","δ">>,<<"Ε","ε">>,<<"Ζ","ζ">>,<<"Η","η">>,<<"Θ","θ">>,
     <<"Ι","ι">>,<<"Κ","κ">>,<<"Λ","λ">>,<<"Μ","μ">>,<<"Ν","ν">>,<<"Ξ","ξ">>,
     <<"Ο","ο">>,<<"Π","π">>,<<"Ρ","ρ">>,<<"Τ","τ">>,<<"Υ","υ">>,<<"Φ","φ">>,
     <<"Χ","χ">>,<<"Ψ","ψ">>,<<"Ω","ω">>,<<"Ϊ","ϊ">>,<<"Ϋ","ϋ">>,<<"Ϗ","ϗ">>,
     <<"Ϙ","ϙ">>,<<"Ϛ","ϛ">>,<<"Ϝ","ϝ">>,<<"Ϟ","ϟ">>,<<"Ϡ","ϡ">>,<<"Ϣ","ϣ">>,
     <<"Ϥ","ϥ">>,<<"Ϧ","ϧ">>,<<"Ϩ","ϩ">>,<<"Ϫ","ϫ">>,<<"Ϭ","ϭ">>,<<"Ϯ","ϯ">>,
     <<"ϴ","θ">>,<<"Ϸ","ϸ">>,<<"Ϲ","ϲ">>,<<"Ϻ","ϻ">>,<<"Ҁ","ҁ">>,<<"Ҋ","ҋ">>,
     <<"Ҍ","ҍ">>,<<"Ҏ","ҏ">>,<<"Ґ","ґ">>,<<"Ғ","ғ">>,<<"Ҕ","ҕ">>,<<"Җ","җ">>,
     <<"Ҙ","ҙ">>,<<"Қ","қ">>,<<"Ҝ","ҝ">>,<<"Ҟ","ҟ">>,<<"Ҡ","ҡ">>,<<"Ң","ң">>,
     <<"Ҥ","ҥ">>,<<"Ҧ","ҧ">>,<<"Ҩ","ҩ">>,<<"Ҫ","ҫ">>,<<"Ҭ","ҭ">>,<<"Ү","ү">>,
     <<"Ұ","ұ">>,<<"Ҳ","ҳ">>,<<"Ҵ","ҵ">>,<<"Ҷ","ҷ">>,<<"Ҹ","ҹ">>,<<"Һ","һ">>,
     <<"Ҽ","ҽ">>,<<"Ҿ","ҿ">>,<<"Ӏ","ӏ">>,<<"Ӂ","ӂ">>,<<"Ӄ","ӄ">>,<<"Ӆ","ӆ">>,
     <<"Ӈ","ӈ">>,<<"Ӊ","ӊ">>,<<"Ӌ","ӌ">>,<<"Ӎ","ӎ">>,<<"Ӑ","ӑ">>,<<"Ӓ","ӓ">>,
     <<"Ӕ","ӕ">>,<<"Ӗ","ӗ">>,<<"Ә","ә">>,<<"Ӛ","ӛ">>,<<"Ӝ","ӝ">>,<<"Ӟ","ӟ">>,
     <<"Ӡ","ӡ">>,<<"Ӣ","ӣ">>,<<"Ӥ","ӥ">>,<<"Ӧ","ӧ">>,<<"Ө","ө">>,<<"Ӫ","ӫ">>,
     <<"Ӭ","ӭ">>,<<"Ӯ","ӯ">>,<<"Ӱ","ӱ">>,<<"Ӳ","ӳ">>,<<"Ӵ","ӵ">>,<<"Ӷ","ӷ">>,
     <<"Ӹ","ӹ">>,<<"Ӻ","ӻ">>,<<"Ӽ","ӽ">>,<<"Ӿ","ӿ">>,<<"Ꮀ","ꮀ">>,<<"Ꮁ","ꮁ">>,
     <<"Ꮂ","ꮂ">>,<<"Ꮃ","ꮃ">>,<<"Ꮄ","ꮄ">>,<<"Ꮅ","ꮅ">>,<<"Ꮆ","ꮆ">>,<<"Ꮇ","ꮇ">>,
     <<"Ꮈ","ꮈ">>,<<"Ꮉ","ꮉ">>,<<"Ꮊ","ꮊ">>,<<"Ꮋ","ꮋ">>,<<"Ꮌ","ꮌ">>,<<"Ꮍ","ꮍ">>,
     <<"Ꮎ","ꮎ">>,<<"Ꮏ","ꮏ">>,<<"Ꮐ","ꮐ">>,<<"Ꮑ","ꮑ">>,<<"Ꮒ","ꮒ">>,<<"Ꮓ","ꮓ">>,
     <<"Ꮔ","ꮔ">>,<<"Ꮕ","ꮕ">>,<<"Ꮖ","ꮖ">>,<<"Ꮗ","ꮗ">>,<<"Ꮘ","ꮘ">>,<<"Ꮙ","ꮙ">>,
     <<"Ꮚ","ꮚ">>,<<"Ꮛ","ꮛ">>,<<"Ꮜ","ꮜ">>,<<"Ꮝ","ꮝ">>,<<"Ꮞ","ꮞ">>,<<"Ꮟ","ꮟ">>,
     <<"Ꮠ","ꮠ">>,<<"Ꮡ","ꮡ">>,<<"Ꮢ","ꮢ">>,<<"Ꮣ","ꮣ">>,<<"Ꮤ","ꮤ">>,<<"Ꮥ","ꮥ">>,
     <<"Ꮦ","ꮦ">>,<<"Ꮧ","ꮧ">>,<<"Ꮨ","ꮨ">>,<<"Ꮩ","ꮩ">>,<<"Ꮪ","ꮪ">>,<<"Ꮫ","ꮫ">>,
     <<"Ꮬ","ꮬ">>,<<"Ꮭ","ꮭ">>,<<"Ꮮ","ꮮ">>,<<"Ꮯ","ꮯ">>,<<"Ꮰ","ꮰ">>,<<"Ꮱ","ꮱ">>,
     <<"Ꮲ","ꮲ">>,<<"Ꮳ","ꮳ">>,<<"Ꮴ","ꮴ">>,<<"Ꮵ","ꮵ">>,<<"Ꮶ","ꮶ">>,<<"Ꮷ","ꮷ">>,
     <<"Ꮸ","ꮸ">>,<<"Ꮹ","ꮹ">>,<<"Ꮺ","ꮺ">>,<<"Ꮻ","ꮻ">>,<<"Ꮼ","ꮼ">>,<<"Ꮽ","ꮽ">>,
     <<"Ꮾ","ꮾ">>,<<"Ꮿ","ꮿ">>,<<"Ᏸ","ᏸ">>,<<"Ᏹ","ᏹ">>,<<"Ᏺ","ᏺ">>,<<"Ᏻ","ᏻ">>,
     <<"Ᏼ","ᏼ">>,<<"Ᏽ","ᏽ">>,<<"Ᲊ","ᲊ">>,<<"Ა","ა">>,<<"Ბ","ბ">>,<<"Გ","გ">>,
     <<"Დ","დ">>,<<"Ე","ე">>,<<"Ვ","ვ">>,<<"Ზ","ზ">>,<<"Თ","თ">>,<<"Ი","ი">>,
     <<"Კ","კ">>,<<"Ლ","ლ">>,<<"Მ","მ">>,<<"Ნ","ნ">>,<<"Ო","ო">>,<<"Პ","პ">>,
     <<"Ჟ","ჟ">>,<<"Რ","რ">>,<<"Ს","ს">>,<<"Ტ","ტ">>,<<"Უ","უ">>,<<"Ფ","ფ">>,
     <<"Ქ","ქ">>,<<"Ღ","ღ">>,<<"Ყ","ყ">>,<<"Შ","შ">>,<<"Ჩ","ჩ">>,<<"Ც","ც">>,
     <<"Ძ","ძ">>,<<"Წ","წ">>,<<"Ჭ","ჭ">>,<<"Ხ","ხ">>,<<"Ჯ","ჯ">>,<<"Ჰ","ჰ">>,
     <<"Ჱ","ჱ">>,<<"Ჲ","ჲ">>,<<"Ჳ","ჳ">>,<<"Ჴ","ჴ">>,<<"Ჵ","ჵ">>,<<"Ჶ","ჶ">>,
     <<"Ჷ","ჷ">>,<<"Ჸ","ჸ">>,<<"Ჹ","ჹ">>,<<"Ჺ","ჺ">>,<<"Ჽ","ჽ">>,<<"Ჾ","ჾ">>,
     <<"Ჿ","ჿ">>,<<"Ẁ","ẁ">>,<<"Ẃ","ẃ">>,<<"Ẅ","ẅ">>,<<"Ẇ","ẇ">>,<<"Ẉ","ẉ">>,
     <<"Ẋ","ẋ">>,<<"Ẍ","ẍ">>,<<"Ẏ","ẏ">>,<<"Ẑ","ẑ">>,<<"Ẓ","ẓ">>,<<"Ẕ","ẕ">>,
     <<"ẞ","ß">>,<<"Ạ","ạ">>,<<"Ả","ả">>,<<"Ấ","ấ">>,<<"Ầ","ầ">>,<<"Ẩ","ẩ">>,
     <<"Ẫ","ẫ">>,<<"Ậ","ậ">>,<<"Ắ","ắ">>,<<"Ằ","ằ">>,<<"Ẳ","ẳ">>,<<"Ẵ","ẵ">>,
     <<"Ặ","ặ">>,<<"Ẹ","ẹ">>,<<"Ẻ","ẻ">>,<<"Ẽ","ẽ">>,<<"Ế","ế">>,<<"Ề","ề">>,
     <<"Ể","ể">>,<<"Ễ","ễ">>,<<"Ệ","ệ">>,<<"Ỉ","ỉ">>,<<"Ị","ị">>,<<"Ọ","ọ">>,
     <<"Ỏ","ỏ">>,<<"Ố","ố">>,<<"Ồ","ồ">>,<<"Ổ","ổ">>,<<"Ỗ","ỗ">>,<<"Ộ","ộ">>,
     <<"Ớ","ớ">>,<<"Ờ","ờ">>,<<"Ở","ở">>,<<"Ỡ","ỡ">>,<<"Ợ","ợ">>,<<"Ụ","ụ">>,
     <<"Ủ","ủ">>,<<"Ứ","ứ">>,<<"Ừ","ừ">>,<<"Ử","ử">>,<<"Ữ","ữ">>,<<"Ự","ự">>,
     <<"Ỳ","ỳ">>,<<"Ỵ","ỵ">>,<<"Ỷ","ỷ">>,<<"Ỹ","ỹ">>,<<"Ỻ","ỻ">>,<<"Ỽ","ỽ">>,
     <<"Ỿ","ỿ">>,<<"ᾈ","ᾀ">>,<<"ᾉ","ᾁ">>,<<"ᾊ","ᾂ">>,<<"ᾋ","ᾃ">>,<<"ᾌ","ᾄ">>,
     <<"ᾍ","ᾅ">>,<<"ᾎ","ᾆ">>,<<"ᾏ","ᾇ">>,<<"ᾘ","ᾐ">>,<<"ᾙ","ᾑ">>,<<"ᾚ","ᾒ">>,
     <<"ᾛ","ᾓ">>,<<"ᾜ","ᾔ">>,<<"ᾝ","ᾕ">>,<<"ᾞ","ᾖ">>,<<"ᾟ","ᾗ">>,<<"ᾨ","ᾠ">>,
     <<"ᾩ","ᾡ">>,<<"ᾪ","ᾢ">>,<<"ᾫ","ᾣ">>,<<"ᾬ","ᾤ">>,<<"ᾭ","ᾥ">>,<<"ᾮ","ᾦ">>,
     <<"ᾯ","ᾧ">>,<<"Ᾰ","ᾰ">>,<<"Ᾱ","ᾱ">>,<<"ᾼ","ᾳ">>,<<"ῌ","ῃ">>,<<"Ῐ","ῐ">>,
     <<"Ῑ","ῑ">>,<<"Ῠ","ῠ">>,<<"Ῡ","ῡ">>,<<"Ῥ","ῥ">>,<<"ῼ","ῳ">>,<<"Ↄ","ↄ">>,
     <<"Ⓐ","ⓐ">>,<<"Ⓑ","ⓑ">>,<<"Ⓒ","ⓒ">>,<<"Ⓓ","ⓓ">>,<<"Ⓔ","ⓔ">>,<<"Ⓕ","ⓕ">>,
     <<"Ⓖ","ⓖ">>,<<"Ⓗ","ⓗ">>,<<"Ⓘ","ⓘ">>,<<"Ⓙ","ⓙ">>,<<"Ⓚ","ⓚ">>,<<"Ⓛ","ⓛ">>,
     <<"Ⓜ","ⓜ">>,<<"Ⓝ","ⓝ">>,<<"Ⓞ","ⓞ">>,<<"Ⓟ","ⓟ">>,<<"Ⓠ","ⓠ">>,<<"Ⓡ","ⓡ">>,
     <<"Ⓢ","ⓢ">>,<<"Ⓣ","ⓣ">>,<<"Ⓤ","ⓤ">>,<<"Ⓥ","ⓥ">>,<<"Ⓦ","ⓦ">>,<<"Ⓧ","ⓧ">>,
     <<"Ⓨ","ⓨ">>,<<"Ⓩ","ⓩ">>,<<"Ⲁ","ⲁ">>,<<"Ⲃ","ⲃ">>,<<"Ⲅ","ⲅ">>,<<"Ⲇ","ⲇ">>,
     <<"Ⲉ","ⲉ">>,<<"Ⲋ","ⲋ">>,<<"Ⲍ","ⲍ">>,<<"Ⲏ","ⲏ">>,<<"Ⲑ","ⲑ">>,<<"Ⲓ","ⲓ">>,
     <<"Ⲕ","ⲕ">>,<<"Ⲗ","ⲗ">>,<<"Ⲙ","ⲙ">>,<<"Ⲛ","ⲛ">>,<<"Ⲝ","ⲝ">>,<<"Ⲟ","ⲟ">>,
     <<"Ⲡ","ⲡ">>,<<"Ⲣ","ⲣ">>,<<"Ⲥ","ⲥ">>,<<"Ⲧ","ⲧ">>,<<"Ⲩ","ⲩ">>,<<"Ⲫ","ⲫ">>,
     <<"Ⲭ","ⲭ">>,<<"Ⲯ","ⲯ">>,<<"Ⲱ","ⲱ">>,<<"Ⲳ","ⲳ">>,<<"Ⲵ","ⲵ">>,<<"Ⲷ","ⲷ">>,
     <<"Ⲹ","ⲹ">>,<<"Ⲻ","ⲻ">>,<<"Ⲽ","ⲽ">>,<<"Ⲿ","ⲿ">>,<<"Ⳁ","ⳁ">>,<<"Ⳃ","ⳃ">>,
     <<"Ⳅ","ⳅ">>,<<"Ⳇ","ⳇ">>,<<"Ⳉ","ⳉ">>,<<"Ⳋ","ⳋ">>,<<"Ⳍ","ⳍ">>,<<"Ⳏ","ⳏ">>,
     <<"Ⳑ","ⳑ">>,<<"Ⳓ","ⳓ">>,<<"Ⳕ","ⳕ">>,<<"Ⳗ","ⳗ">>,<<"Ⳙ","ⳙ">>,<<"Ⳛ","ⳛ">>,
     <<"Ⳝ","ⳝ">>,<<"Ⳟ","ⳟ">>,<<"Ⳡ","ⳡ">>,<<"Ⳣ","ⳣ">>,<<"Ⳬ","ⳬ">>,<<"Ⳮ","ⳮ">>,
     <<"Ⳳ","ⳳ">>,<<"Ꚁ","ꚁ">>,<<"Ꚃ","ꚃ">>,<<"Ꚅ","ꚅ">>,<<"Ꚇ","ꚇ">>,<<"Ꚉ","ꚉ">>,
     <<"Ꚋ","ꚋ">>,<<"Ꚍ","ꚍ">>,<<"Ꚏ","ꚏ">>,<<"Ꚑ","ꚑ">>,<<"Ꚓ","ꚓ">>,<<"Ꚕ","ꚕ">>,
     <<"Ꚗ","ꚗ">>,<<"Ꚙ","ꚙ">>,<<"Ꚛ","ꚛ">>,<<"Ꞁ","ꞁ">>,<<"Ꞃ","ꞃ">>,<<"Ꞅ","ꞅ">>,
     <<"Ꞇ","ꞇ">>,<<"Ꞌ","ꞌ">>,<<"Ꞑ","ꞑ">>,<<"Ꞓ","ꞓ">>,<<"Ꞗ","ꞗ">>,<<"Ꞙ","ꞙ">>,
     <<"Ꞛ","ꞛ">>,<<"Ꞝ","ꞝ">>,<<"Ꞟ","ꞟ">>,<<"Ꞡ","ꞡ">>,<<"Ꞣ","ꞣ">>,<<"Ꞥ","ꞥ">>,
     <<"Ꞧ","ꞧ">>,<<"Ꞩ","ꞩ">>,<<"Ʞ","ʞ">>,<<"Ʇ","ʇ">>,<<"Ʝ","ʝ">>,<<"Ꞵ","ꞵ">>,
     <<"Ꞷ","ꞷ">>,<<"Ꞹ","ꞹ">>,<<"Ꞻ","ꞻ">>,<<"Ꞽ","ꞽ">>,<<"Ꞿ","ꞿ">>,<<"Ꟁ","ꟁ">>,
     <<"Ꟃ","ꟃ">>,<<"Ꞔ","ꞔ">>,<<"Ʂ","ʂ">>,<<"Ᶎ","ᶎ">>,<<"Ꟈ","ꟈ">>,<<"Ꟊ","ꟊ">>,
     <<"Ꟍ","ꟍ">>,<<"꟎","꟏">>,<<"Ꟑ","ꟑ">>,<<"꟒","ꟓ">>,<<"꟔","ꟕ">>,<<"Ꟗ","ꟗ">>,
     <<"Ꟙ","ꟙ">>,<<"Ꟛ","ꟛ">>,<<"Ƛ","ƛ">>,<<"Ꟶ","ꟶ">>}

\* <<upper, lower>> for each character whose lower-case form is a character
\* that a string of this module cannot hold: that character is written
\* "U+" and the four hexadecimal digits of its code point, one element of a
\* text as any other character; it occurs in results of ToLowerCase only
LowerCaseCodePoints ==
    {<<"Ɓ","U+0253">>,<<"Ɔ","U+0254">>,<<"Ɖ","U+0256">>,<<"Ɗ","U+0257">>,<<"Ə","U+0259">>,
     <<"Ɛ","U+025B">>,<<"Ɠ","U+0260">>,<<"Ɣ","U+0263">>,<<"Ɩ","U+0269">>,<<"Ɨ","U+0268">>,
     <<"Ɯ","U+026F">>,<<"Ɲ","U+0272">>,<<"Ɵ","U+0275">>,<<"Ͻ","U+037B">>,<<"Ͼ","U+037C">>,
     <<"Ͽ","U+037D">>,<<"Ⴀ","U+2D00">>,<<"Ⴁ","U+2D01">>,<<"Ⴂ","U+2D02">>,<<"Ⴃ","U+2D03">>,
     <<"Ⴄ","U+2D04">>,<<"Ⴅ","U+2D05">>,<<"Ⴆ","U+2D06">>,<<"Ⴇ","U+2D07">>,<<"Ⴈ","U+2D08">>,
     <<"Ⴉ","U+2D09">>,<<"Ⴊ","U+2D0A">>,<<"Ⴋ","U+2D0B">>,<<"Ⴌ","U+2D0C">>,<<"Ⴍ","U+2D0D">>,
     <<"Ⴎ","U+2D0E">>,<<"Ⴏ","U+2D0F">>,<<"Ⴐ","U+2D10">>,<<"Ⴑ","U+2D11">>,<<"Ⴒ","U+2D12">>,
     <<"Ⴓ","U+2D13">>,<<"Ⴔ","U+2D14">>,<<"Ⴕ","U+2D15">>,<<"Ⴖ","U+2D16">>,<<"Ⴗ","U+2D17">>,
     <<"Ⴘ","U+2D18">>,<<"Ⴙ","U+2D19">>,<<"Ⴚ","U+2D1A">>,<<"Ⴛ","U+2D1B">>,<<"Ⴜ","U+2D1C">>,
     <<"Ⴝ","U+2D1D">>,<<"Ⴞ","U+2D1E">>,<<"Ⴟ","U+2D1F">>,<<"Ⴠ","U+2D20">>,<<"Ⴡ","U+2D21">>,
     <<"Ⴢ","U+2D22">>,<<"Ⴣ","U+2D23">>,<<"Ⴤ","U+2D24">>,<<"Ⴥ","U+2D25">>,<<"Ⴧ","U+2D27">>,
     <<"Ⴭ","U+2D2D">>,<<"Ꭰ","U+AB70">>,<<"Ꭱ","U+AB71">>,<<"Ꭲ","U+AB72">>,<<"Ꭳ","U+AB73">>,
     <<"Ꭴ","U+AB74">>,<<"Ꭵ","U+AB75">>,<<"Ꭶ","U+AB76">>,<<"Ꭷ","U+AB77">>,<<"Ꭸ","U+AB78">>,
     <<"Ꭹ","U+AB79">>,<<"Ꭺ","U+AB7A">>,<<"Ꭻ","U+AB7B">>,<<"Ꭼ","U+AB7C">>,<<"Ꭽ","U+AB7D">>,
     <<"Ꭾ","U+AB7E">>,<<"Ꭿ","U+AB7F">>,<<"Ὰ","U+1F70">>,<<"Ά","U+1F71">>,<<"Ὲ","U+1F72">>,
     <<"Έ","U+1F73">>,<<"Ὴ","U+1F74">>,<<"Ή","U+1F75">>,<<"Ὶ","U+1F76">>,<<"Ί","U+1F77">>,
     <<"Ὺ","U+1F7A">>,<<"Ύ","U+1F7B">>,<<"Ὸ","U+1F78">>,<<"Ό","U+1F79">>,<<"Ὼ","U+1F7C">>,
     <<"Ώ","U+1F7D">>,<<"Ɥ","U+0265">>,<<"Ɦ","U+0266">>,<<"Ɜ","U+025C">>,<<"Ɡ","U+0261">>,
     <<"Ɬ","U+026C">>,<<"Ɪ","U+026A">>,<<"Ꭓ","U+AB53">>,<<"Ɤ","U+0264">>}

\* Case_Ignorable of the Unicode standard
CaseIgnorable ==
    {"'",".",":","^","¨","­","¯","´","·","¸","ʰ","ʱ","ʲ","ʳ","ʴ","ʵ",
     "ʶ","ʷ","ʸ","ʹ","ʺ","ʻ","ʼ","ʽ","ʾ","ʿ","ˀ","ˁ","˂","˃","˄","˅",
     "ˆ","ˇ","ˈ","ˉ","ˊ","ˋ","ˌ","ˍ","ˎ","ˏ","ː","ˑ","˒","˓","˔","˕",
     "˖","˗","˘","˙","˚","˛","˜","˝","˞","˟","ˠ","ˡ","ˢ","ˣ","ˤ","˥",
     "˦","˧","˨","˩","˪","˫","ˬ","˭","ˮ","˯","˰","˱","˲","˳","˴","˵",
     "˶","˷","˸","˹","˺","˻","˼","˽","˾","˿","΄","΅","·","҃","҄","҅",
     "҆","҇","҈","҉","֑","֒","֓","֔","֕","֖","֗","֘","֙","֚","֛","֜",
     "֝","֞","֟","֠","֡","֢","֣","֤","֥","֦","֧","֨","֩","֪","֫","֬",
     "֭","֮","֯","ְ","ֱ","ֲ","ֳ","ִ","ֵ","ֶ","ַ","ָ","ֹ","ֺ","ֻ","ּ",
     "ֽ","ֿ","ׁ","ׂ","ׄ","ׅ","ׇ","״","ۖ","ۗ","ۘ","ۙ","ۚ","ۛ","ۜ","۝",
     "۟","۠","ۡ","ۢ","ۣ","ۤ","ۥ","ۦ","ۧ","ۨ","۪","۫","۬","ۭ","ަ","ާ",
     "ި","ީ","ު","ޫ","ެ","ޭ","ޮ","ޯ","ް","߫","߬","߭","߮","߯","߰","߱",
     "߲","߳","ߴ","ߵ","ߺ","߽","࢈","࢐","࢑","ࢗ","࢘","࢙","࢚","࢛","࢜","࢝",
     "࢞","࢟","ࣉ","࣊","࣋","࣌","࣍","࣎","࣏","࣐","࣑","࣒","࣓","ࣔ","ࣕ","ࣖ",
     "ࣗ","ࣘ","ࣙ","ࣚ","ࣛ","ࣜ","ࣝ","ࣞ","ࣟ","࣠","࣡","࣢","ࣣ","ࣤ","ࣥ","ࣦ",
     "ࣧ","ࣨ","ࣩ","࣪","࣫","࣬","࣭","࣮","࣯","ࣰ","ࣱ","ࣲ","ࣳ","ࣴ","ࣵ","ࣶ",
     "ࣷ","ࣸ","ࣹ","ࣺ","ࣻ","ࣼ","ࣽ","ࣾ","ࣿ","ঁ","়","ু","ূ","ৃ","ৄ","্",
     "ৢ","ৣ","৾","ઁ","ં","઼","ુ","ૂ","ૃ","ૄ","ૅ","ે","ૈ","્","ૢ","ૣ",
     "ૺ","ૻ","ૼ","૽","૾","૿","ஂ","ீ","்","ಁ","಼","ಿ","ೆ","ೌ","್","ೢ",
     "ೣ","ඁ","්","ි","ී","ු","ූ","ັ","ິ","ີ","ຶ","ື","ຸ","ູ","຺","ົ",
     "ຼ","ໆ","່","້","໊","໋","໌","ໍ","໎","ྀ","ཱྀ","ྂ","ྃ","྄","྆","྇",
     "ྍ","ྎ","ྏ","ྐ","ྑ","ྒ","ྒྷ","ྔ","ྕ","ྖ","ྗ","ྙ","ྚ","ྛ","ྜ","ྜྷ",
     "ྞ","ྟ","ྠ","ྡ","ྡྷ","ྣ","ྤ","ྥ","ྦ","ྦྷ","ྨ","ྩ","ྪ","ྫ","ྫྷ","ྭ",
     "ྮ","ྯ","ྰ","ྱ","ྲ","ླ","ྴ","ྵ","ྶ","ྷ","ྸ","ྐྵ","ྺ","ྻ","ྼ","࿆",
     "ႂ","ႅ","ႆ","ႍ","ႝ","ჼ","឴","឵","ិ","ី","ឹ","ឺ","ុ","ូ","ួ","ំ",
     "៉","៊","់","៌","៍","៎","៏","័","៑","្","៓","ៗ","៝","ᢅ","ᢆ","ᢩ",
     "ᪧ","᪰","᪱","᪲","᪳","᪴","᪵","᪶","᪷","᪸","᪹","᪺","᪻","᪼","᪽","᪾",
     "ᪿ","ᫀ","᫁","᫂","᫃","᫄","᫅","᫆","᫇","᫈","᫉","᫊","᫋","ᫌ","ᫍ","ᫎ",
     "᫏","᫐","᫑","᫒","᫓","᫔","᫕","᫖","᫗","᫘","᫙","᫚","᫛","᫜","᫝","᫠",
     "᫡","᫢","᫣","᫤","᫥","᫦","᫧","᫨","᫩","᫪","᫫","ᮀ","ᮁ","ᮢ","ᮣ","ᮤ",
     "ᮥ","ᮨ","ᮩ","᮫","ᮬ","ᮭ","᯦","ᯨ","ᯩ","ᯭ","ᯯ","ᯰ","ᯱ","᳐","᳑","᳒",
     "᳔","᳕","᳖","᳗","᳘","᳙","᳚","᳛","᳜","᳝","᳞","᳟","᳠","᳢","᳣","᳤",
     "᳥","᳦","᳧","᳨","᳭","᳴","᳸","᳹","ᶛ","ᶜ","ᶝ","ᶞ","ᶟ","ᶠ","ᶡ","ᶢ",
     "ᶣ","ᶤ","ᶥ","ᶦ","ᶧ","ᶨ","ᶩ","ᶪ","ᶫ","ᶬ","ᶭ","ᶮ","ᶯ","ᶰ","ᶱ","ᶲ",
     "ᶳ","ᶴ","ᶵ","ᶶ","ᶷ","ᶸ","ᶹ","ᶺ","ᶻ","ᶼ","ᶽ","ᶾ","ᶿ","᷀","᷁","᷂",
     "᷃","᷄","᷅","᷆","᷇","᷈","᷉","᷊","᷋","᷌","᷍","᷎","᷏","᷐","᷑","᷒",
     "ᷓ","ᷔ","ᷕ","ᷖ","ᷗ","ᷘ","ᷙ","ᷚ","ᷛ","ᷜ","ᷝ","ᷞ","ᷟ","ᷠ","ᷡ","ᷢ",
     "ᷣ","ᷤ","ᷥ","ᷦ","ᷧ","ᷨ","ᷩ","ᷪ","ᷫ","ᷬ","ᷭ","ᷮ","ᷯ","ᷰ","ᷱ","ᷲ",
     "ᷳ","ᷴ","᷵","᷶","᷷","᷸","᷹","᷺","᷻","᷼","᷽","᷾","᷿","᾽","᾿","῀",
     "῁","῍","῎","῏","῝","῞","῟","῭","΅","`","´","῾","ₐ","ₑ","ₒ","ₓ",
     "ₔ","ₕ","ₖ","ₗ","ₘ","ₙ","ₚ","ₛ","ₜ","⃐","⃑","⃒","⃓","⃔","⃕","⃖",
     "⃗","⃘","⃙","⃚","⃛","⃜","⃝","⃞","⃟","⃠","⃡","⃢","⃣","⃤","⃥","⃦",
     "⃧","⃨","⃩","⃪","⃫","⃬","⃭","⃮","⃯","⃰","⳯","⳰","⳱","ⷠ","ⷡ","ⷢ",
     "ⷣ","ⷤ","ⷥ","ⷦ","ⷧ","ⷨ","ⷩ","ⷪ","ⷫ","ⷬ","ⷭ","ⷮ","ⷯ","ⷰ","ⷱ","ⷲ",
     "ⷳ","ⷴ","ⷵ","ⷶ","ⷷ","ⷸ","ⷹ","ⷺ","ⷻ","ⷼ","ⷽ","ⷾ","ⷿ","゙","゚","゛",
     "゜","ゝ","ゞ","ー","ヽ","ヾ","ꓸ","ꓹ","ꓺ","ꓻ","ꓼ","ꓽ","ꚜ","ꚝ","ꚞ","ꚟ",
     "꛰","꛱","ꞈ","꞉","꞊","꟱","ꟲ","ꟳ","ꟴ","ꟸ","ꟹ","꣄","ꣅ","꣠","꣡","꣢",
     "꣣","꣤","꣥","꣦","꣧","꣨","꣩","꣪","꣫","꣬","꣭","꣮","꣯","꣰","꣱","ꣿ",
     "ꦀ","ꦁ","ꦂ","꦳","ꦶ","ꦷ","ꦸ","ꦹ","ꦼ","ꦽ","ꧏ","ꧥ","ꧦ","ꪰ","ꪲ","ꪳ",
     "ꪴ","ꪷ","ꪸ","ꪾ","꪿","꫁","ꫝ","ꫬ","ꫭ","ꫳ","ꫴ","꫶","ꯥ","ꯨ","꯭","﮲",
     "﮳","﮴","﮵","﮶","﮷","﮸","﮹","﮺","﮻","﮼","﮽","﮾","﮿","﯀","﯁","﯂",
     "﻿","ﾞ","ﾟ","￣","￹","￺","￻"}

\* Cased and not Case_Ignorable
Cased ==
    {"A","B","C","D","E","F","G","H","I","J","K","L","M","N","O","P",
     "Q","R","S","T","U","V","W","X","Y","Z","a","b","c","d","e","f",
     "g","h","i","j","k","l","m","n","o","p","q","r","s","t","u","v",
     "w","x","y","z","ª","µ","º","À","Á","Â","Ã","Ä","Å","Æ","Ç","È",
     "É","Ê","Ë","Ì","Í","Î","Ï","Ð","Ñ","Ò","Ó","Ô","Õ","Ö","Ø","Ù",
     "Ú","Û","Ü","Ý","Þ","ß","à","á","â","ã","ä","å","æ","ç","è","é",
     "ê","ë","ì","í","î","ï","ð","ñ","ò","ó","ô","õ","ö","ø","ù","ú",
     "û","ü","ý","þ","ÿ","ƀ","Ɓ","Ƃ","ƃ","Ƅ","ƅ","Ɔ","Ƈ","ƈ","Ɖ","Ɗ",
     "Ƌ","ƌ","ƍ","Ǝ","Ə","Ɛ","Ƒ","ƒ","Ɠ","Ɣ","ƕ","Ɩ","Ɨ","Ƙ","ƙ","ƚ",
     "ƛ","Ɯ","Ɲ","ƞ","Ɵ","Ơ","ơ","Ƣ","ƣ","Ƥ","ƥ","Ʀ","Ƨ","ƨ","Ʃ","ƪ",
     "ƫ","Ƭ","ƭ","Ʈ","Ư","ư","Ʊ","Ʋ","Ƴ","ƴ","Ƶ","ƶ","Ʒ","Ƹ","ƹ","ƺ",
     "Ƽ","ƽ","ƾ","ƿ","Ǆ","ǅ","ǆ","Ǉ","ǈ","ǉ","Ǌ","ǋ","ǌ","Ǎ","ǎ","Ǐ",
     "ǐ","Ǒ","ǒ","Ǔ","ǔ","Ǖ","ǖ","Ǘ","ǘ","Ǚ","ǚ","Ǜ","ǜ","ǝ","Ǟ","ǟ",
     "Ǡ","ǡ","Ǣ","ǣ","Ǥ","ǥ","Ǧ","ǧ","Ǩ","ǩ","Ǫ","ǫ","Ǭ","ǭ","Ǯ","ǯ",
     "ǰ","Ǳ","ǲ","ǳ","Ǵ","ǵ","Ƕ","Ƿ","Ǹ","ǹ","Ǻ","ǻ","Ǽ","ǽ","Ǿ","ǿ",
     "ʀ","ʁ","ʂ","ʃ","ʄ","ʅ","ʆ","ʇ","ʈ","ʉ","ʊ","ʋ","ʌ","ʍ","ʎ","ʏ",
     "ʐ","ʑ","ʒ","ʓ","ʖ","ʗ","ʘ","ʙ","ʚ","ʛ","ʜ","ʝ","ʞ","ʟ","ʠ","ʡ",
     "ʢ","ʣ","ʤ","ʥ","ʦ","ʧ","ʨ","ʩ","ʪ","ʫ","ʬ","ʭ","ʮ","ʯ","Ά","Έ",
     "Ή","Ί","Ό","Ύ","Ώ","ΐ","Α","Β","Γ","Δ","Ε","Ζ","Η","Θ","Ι","Κ",
     "Λ","Μ","Ν","Ξ","Ο","Π","Ρ","Σ","Τ","Υ","Φ","Χ","Ψ","Ω","Ϊ","Ϋ",
     "ά","έ","ή","ί","ΰ","α","β","γ","δ","ε","ζ","η","θ","ι","κ","λ",
     "μ","ν","ξ","ο","π","ρ","ς","σ","τ","υ","φ","χ","ψ","ω","ϊ","ϋ",
     "ό","ύ","ώ","Ϗ","ϐ","ϑ","ϒ","ϓ","ϔ","ϕ","ϖ","ϗ","Ϙ","ϙ","Ϛ","ϛ",
     "Ϝ","ϝ","Ϟ","ϟ","Ϡ","ϡ","Ϣ","ϣ","Ϥ","ϥ","Ϧ","ϧ","Ϩ","ϩ","Ϫ","ϫ",
     "Ϭ","ϭ","Ϯ","ϯ","ϰ","ϱ","ϲ","ϳ","ϴ","ϵ","Ϸ","ϸ","Ϲ","Ϻ","ϻ","ϼ",
     "Ͻ","Ͼ","Ͽ","Ҁ","ҁ","Ҋ","ҋ","Ҍ","ҍ","Ҏ","ҏ","Ґ","ґ","Ғ","ғ","Ҕ",
     "ҕ","Җ","җ","Ҙ","ҙ","Қ","қ","Ҝ","ҝ","Ҟ","ҟ","Ҡ","ҡ","Ң","ң","Ҥ",
     "ҥ","Ҧ","ҧ","Ҩ","ҩ","Ҫ","ҫ","Ҭ","ҭ","Ү","ү","Ұ","ұ","Ҳ","ҳ","Ҵ",
     "ҵ","Ҷ","ҷ","Ҹ","ҹ","Һ","һ","Ҽ","ҽ","Ҿ","ҿ","Ӏ","Ӂ","ӂ","Ӄ","ӄ",
     "Ӆ","ӆ","Ӈ","ӈ","Ӊ","ӊ","Ӌ","ӌ","Ӎ","ӎ","ӏ","Ӑ","ӑ","Ӓ","ӓ","Ӕ",
     "ӕ","Ӗ","ӗ","Ә","ә","Ӛ","ӛ","Ӝ","ӝ","Ӟ","ӟ","Ӡ","ӡ","Ӣ","ӣ","Ӥ",
     "ӥ","Ӧ","ӧ","Ө","ө","Ӫ","ӫ","Ӭ","ӭ","Ӯ","ӯ","Ӱ","ӱ","Ӳ","ӳ","Ӵ",
     "ӵ","Ӷ","ӷ","Ӹ","ӹ","Ӻ","ӻ","Ӽ","ӽ","Ӿ","ӿ","ր","ց","ւ","փ","ք",
     "օ","ֆ","և","ֈ","Ⴀ","Ⴁ","Ⴂ","Ⴃ","Ⴄ","Ⴅ","Ⴆ","Ⴇ","Ⴈ","Ⴉ","Ⴊ","Ⴋ",
     "Ⴌ","Ⴍ","Ⴎ","Ⴏ","Ⴐ","Ⴑ","Ⴒ","Ⴓ","Ⴔ","Ⴕ","Ⴖ","Ⴗ","Ⴘ","Ⴙ","Ⴚ","Ⴛ",
     "Ⴜ","Ⴝ","Ⴞ","Ⴟ","Ⴠ","Ⴡ","Ⴢ","Ⴣ","Ⴤ","Ⴥ","Ⴧ","Ⴭ","ა","ბ","გ","დ",
     "ე","ვ","ზ","თ","ი","კ","ლ","მ","ნ","ო","პ","ჟ","რ","ს","ტ","უ",
     "ფ","ქ","ღ","ყ","შ","ჩ","ც","ძ","წ","ჭ","ხ","ჯ","ჰ","ჱ","ჲ","ჳ",
     "ჴ","ჵ","ჶ","ჷ","ჸ","ჹ","ჺ","ჽ","ჾ","ჿ","Ꭰ","Ꭱ","Ꭲ","Ꭳ","Ꭴ","Ꭵ",
     "Ꭶ","Ꭷ","Ꭸ","Ꭹ","Ꭺ","Ꭻ","Ꭼ","Ꭽ","Ꭾ","Ꭿ","Ꮀ","Ꮁ","Ꮂ","Ꮃ","Ꮄ","Ꮅ",
     "Ꮆ","Ꮇ","Ꮈ","Ꮉ","Ꮊ","Ꮋ","Ꮌ","Ꮍ","Ꮎ","Ꮏ","Ꮐ","Ꮑ","Ꮒ","Ꮓ","Ꮔ","Ꮕ",
     "Ꮖ","Ꮗ","Ꮘ","Ꮙ","Ꮚ","Ꮛ","Ꮜ","Ꮝ","Ꮞ","Ꮟ","Ꮠ","Ꮡ","Ꮢ","Ꮣ","Ꮤ","Ꮥ",
     "Ꮦ","Ꮧ","Ꮨ","Ꮩ","Ꮪ","Ꮫ","Ꮬ","Ꮭ","Ꮮ","Ꮯ","Ꮰ","Ꮱ","Ꮲ","Ꮳ","Ꮴ","Ꮵ",
     "Ꮶ","Ꮷ","Ꮸ","Ꮹ","Ꮺ","Ꮻ","Ꮼ","Ꮽ","Ꮾ","Ꮿ","Ᏸ","Ᏹ","Ᏺ","Ᏻ","Ᏼ","Ᏽ",
     "ᏸ","ᏹ","ᏺ","ᏻ","ᏼ","ᏽ","ᲀ","ᲁ","ᲂ","ᲃ","ᲄ","ᲅ","ᲆ","ᲇ","ᲈ","Ᲊ",
     "ᲊ","Ა","Ბ","Გ","Დ","Ე","Ვ","Ზ","Თ","Ი","Კ","Ლ","Მ","Ნ","Ო","Პ",
     "Ჟ","Რ","Ს","Ტ","Უ","Ფ","Ქ","Ღ","Ყ","Შ","Ჩ","Ც","Ძ","Წ","Ჭ","Ხ",
     "Ჯ","Ჰ","Ჱ","Ჲ","Ჳ","Ჴ","Ჵ","Ჶ","Ჷ","Ჸ","Ჹ","Ჺ","Ჽ","Ჾ","Ჿ","ᶀ",
     "ᶁ","ᶂ","ᶃ","ᶄ","ᶅ","ᶆ","ᶇ","ᶈ","ᶉ","ᶊ","ᶋ","ᶌ","ᶍ","ᶎ","ᶏ","ᶐ",
     "ᶑ","ᶒ","ᶓ","ᶔ","ᶕ","ᶖ","ᶗ","ᶘ","ᶙ","ᶚ","Ẁ","ẁ","Ẃ","ẃ","Ẅ","ẅ",
     "Ẇ","ẇ","Ẉ","ẉ","Ẋ","ẋ","Ẍ","ẍ","Ẏ","ẏ","Ẑ","ẑ","Ẓ","ẓ","Ẕ","ẕ",
     "ẖ","ẗ","ẘ","ẙ","ẚ","ẛ","ẜ","ẝ","ẞ","ẟ","Ạ","ạ","Ả","ả","Ấ","ấ",
     "Ầ","ầ","Ẩ","ẩ","Ẫ","ẫ","Ậ","ậ","Ắ","ắ","Ằ","ằ","Ẳ","ẳ","Ẵ","ẵ",
     "Ặ","ặ","Ẹ","ẹ","Ẻ","ẻ","Ẽ","ẽ","Ế","ế","Ề","ề","Ể","ể","Ễ","ễ",
     "Ệ","ệ","Ỉ","ỉ","Ị","ị","Ọ","ọ","Ỏ","ỏ","Ố","ố","Ồ","ồ","Ổ","ổ",
     "Ỗ","ỗ","Ộ","ộ","Ớ","ớ","Ờ","ờ","Ở","ở","Ỡ","ỡ","Ợ","ợ","Ụ","ụ",
     "Ủ","ủ","Ứ","ứ","Ừ","ừ","Ử","ử","Ữ","ữ","Ự","ự","Ỳ","ỳ","Ỵ","ỵ",
     "Ỷ","ỷ","Ỹ","ỹ","Ỻ","ỻ","Ỽ","ỽ","Ỿ","ỿ","ᾀ","ᾁ","ᾂ","ᾃ","ᾄ","ᾅ",
     "ᾆ","ᾇ","ᾈ","ᾉ","ᾊ","ᾋ","ᾌ","ᾍ","ᾎ","ᾏ","ᾐ","ᾑ","ᾒ","ᾓ","ᾔ","ᾕ",
     "ᾖ","ᾗ","ᾘ","ᾙ","ᾚ","ᾛ","ᾜ","ᾝ","ᾞ","ᾟ","ᾠ","ᾡ","ᾢ","ᾣ","ᾤ","ᾥ",
     "ᾦ","ᾧ","ᾨ","ᾩ","ᾪ","ᾫ","ᾬ","ᾭ","ᾮ","ᾯ","ᾰ","ᾱ","ᾲ","ᾳ","ᾴ","ᾶ",
     "ᾷ","Ᾰ","Ᾱ","Ὰ","Ά","ᾼ","ι","ῂ","ῃ","ῄ","ῆ","ῇ","Ὲ","Έ","Ὴ","Ή",
     "ῌ","ῐ","ῑ","ῒ","ΐ","ῖ","ῗ","Ῐ","Ῑ","Ὶ","Ί","ῠ","ῡ","ῢ","ΰ","ῤ",
     "ῥ","ῦ","ῧ","Ῠ","Ῡ","Ὺ","Ύ","Ῥ","ῲ","ῳ","ῴ","ῶ","ῷ","Ὸ","Ό","Ὼ",
     "Ώ","ῼ","Ↄ","ↄ","Ⓐ","Ⓑ","Ⓒ","Ⓓ","Ⓔ","Ⓕ","Ⓖ","Ⓗ","Ⓘ","Ⓙ","Ⓚ","Ⓛ",
     "Ⓜ","Ⓝ","Ⓞ","Ⓟ","Ⓠ","Ⓡ","Ⓢ","Ⓣ","Ⓤ","Ⓥ","Ⓦ","Ⓧ","Ⓨ","Ⓩ","ⓐ","ⓑ",
     "ⓒ","ⓓ","ⓔ","ⓕ","ⓖ","ⓗ","ⓘ","ⓙ","ⓚ","ⓛ","ⓜ","ⓝ","ⓞ","ⓟ","ⓠ","ⓡ",
     "ⓢ","ⓣ","ⓤ","ⓥ","ⓦ","ⓧ","ⓨ","ⓩ","Ⲁ","ⲁ","Ⲃ","ⲃ","Ⲅ","ⲅ","Ⲇ","ⲇ",
     "Ⲉ","ⲉ","Ⲋ","ⲋ","Ⲍ","ⲍ","Ⲏ","ⲏ","Ⲑ","ⲑ","Ⲓ","ⲓ","Ⲕ","ⲕ","Ⲗ","ⲗ",
     "Ⲙ","ⲙ","Ⲛ","ⲛ","Ⲝ","ⲝ","Ⲟ","ⲟ","Ⲡ","ⲡ","Ⲣ","ⲣ","Ⲥ","ⲥ","Ⲧ","ⲧ",
     "Ⲩ","ⲩ","Ⲫ","ⲫ","Ⲭ","ⲭ","Ⲯ","ⲯ","Ⲱ","ⲱ","Ⲳ","ⲳ","Ⲵ","ⲵ","Ⲷ","ⲷ",
     "Ⲹ","ⲹ","Ⲻ","ⲻ","Ⲽ","ⲽ","Ⲿ","ⲿ","Ⳁ","ⳁ","Ⳃ","ⳃ","Ⳅ","ⳅ","Ⳇ","ⳇ",
     "Ⳉ","ⳉ","Ⳋ","ⳋ","Ⳍ","ⳍ","Ⳏ","ⳏ","Ⳑ","ⳑ","Ⳓ","ⳓ","Ⳕ","ⳕ","Ⳗ","ⳗ",
     "Ⳙ","ⳙ","Ⳛ","ⳛ","Ⳝ","ⳝ","Ⳟ","ⳟ","Ⳡ","ⳡ","Ⳣ","ⳣ","ⳤ","Ⳬ","ⳬ","Ⳮ",
     "ⳮ","Ⳳ","ⳳ","Ꚁ","ꚁ","Ꚃ","ꚃ","Ꚅ","ꚅ","Ꚇ","ꚇ","Ꚉ","ꚉ","Ꚋ","ꚋ","Ꚍ",
     "ꚍ","Ꚏ","ꚏ","Ꚑ","ꚑ","Ꚓ","ꚓ","Ꚕ","ꚕ","Ꚗ","ꚗ","Ꚙ","ꚙ","Ꚛ","ꚛ","Ꞁ",
     "ꞁ","Ꞃ","ꞃ","Ꞅ","ꞅ","Ꞇ","ꞇ","Ꞌ","ꞌ","Ɥ","ꞎ","Ꞑ","ꞑ","Ꞓ","ꞓ","ꞔ",
     "ꞕ","Ꞗ","ꞗ","Ꞙ","ꞙ","Ꞛ","ꞛ","Ꞝ","ꞝ","Ꞟ","ꞟ","Ꞡ","ꞡ","Ꞣ","ꞣ","Ꞥ",
     "ꞥ","Ꞧ","ꞧ","Ꞩ","ꞩ","Ɦ","Ɜ","Ɡ","Ɬ","Ɪ","ꞯ","Ʞ","Ʇ","Ʝ","Ꭓ","Ꞵ",
     "ꞵ","Ꞷ","ꞷ","Ꞹ","ꞹ","Ꞻ","ꞻ","Ꞽ","ꞽ","Ꞿ","ꞿ","Ꟁ","ꟁ","Ꟃ","ꟃ","Ꞔ",
     "Ʂ","Ᶎ","Ꟈ","ꟈ","Ꟊ","ꟊ","Ɤ","Ꟍ","ꟍ","꟎","꟏","Ꟑ","ꟑ","꟒","ꟓ","꟔",
     "ꟕ","Ꟗ","ꟗ","Ꟙ","ꟙ","Ꟛ","ꟛ","Ƛ","Ꟶ","ꟶ","ꟺ","ꮀ","ꮁ","ꮂ","ꮃ","ꮄ",
     "ꮅ","ꮆ","ꮇ","ꮈ","ꮉ","ꮊ","ꮋ","ꮌ","ꮍ","ꮎ","ꮏ","ꮐ","ꮑ","ꮒ","ꮓ","ꮔ",
     "ꮕ","ꮖ","ꮗ","ꮘ","ꮙ","ꮚ","ꮛ","ꮜ","ꮝ","ꮞ","ꮟ","ꮠ","ꮡ","ꮢ","ꮣ","ꮤ",
     "ꮥ","ꮦ","ꮧ","ꮨ","ꮩ","ꮪ","ꮫ","ꮬ","ꮭ","ꮮ","ꮯ","ꮰ","ꮱ","ꮲ","ꮳ","ꮴ",
     "ꮵ","ꮶ","ꮷ","ꮸ","ꮹ","ꮺ","ꮻ","ꮼ","ꮽ","ꮾ","ꮿ"}

\* the lower-case form of each character that has one
LowerOf ==
    [c \in {p[1] : p \in LowerCasePairs \cup LowerCaseCodePoints} |->
        (CHOOSE p \in LowerCasePairs \cup LowerCaseCodePoints : p[1] = c)[2]]

\* String.prototype.toLowerCase, one character other than capital sigma
LowerChar(c) == IF c \in DOMAIN LowerOf THEN LowerOf[c] ELSE c

\* Final_Sigma of the Unicode standard: s[i] follows a cased letter and is
\* followed by none, case-ignorable characters skipped on both sides
IsFinalSigma(s, i) ==
    /\ \E j \in 1..(i - 1) :
           /\ s[j] \in Cased
           /\ \A k \in (j + 1)..(i - 1) : s[k] \in CaseIgnorable
    /\ ~ \E j \in (i + 1)..Len(s) :
           /\ s[j] \in Cased
           /\ \A k \in (i + 1)..(j - 1) : s[k] \in CaseIgnorable

ToLowerCase(s) ==
    [i \in 1..Len(s) |->
        IF s[i] = "Σ"
        THEN IF IsFinalSigma(s, i) THEN "ς" ELSE "σ"
        ELSE LowerChar(s[i])]

\* String.prototype.includes
Includes(s, needle) ==
    \E i \in 0..(Len(s) - Len(needle)) :
        SubSeq(s, i + 1, i + Len(needle)) = needle

\* the white space of String.prototype.trim among the characters a string of
\* the model can hold: space, line feed, tab, carriage return, form feed,
\* and, written as the characters themselves, vertical tab (U+000B),
\* no-break space (U+00A0), ogham space mark (U+1680) and the byte order
\* mark (U+FEFF); the other white space of trim (U+2000..U+200A, U+2028,
\* U+2029, U+202F, U+205F, U+3000) cannot occur in a string of the model
IsSpace(c) == c \in {" ", "\n", "\t", "\r", "\f", "", " ", " ", "﻿"}

\* String.prototype.trim
RECURSIVE TrimStart(_)
TrimStart(s) ==
    IF s # <<>> /\ IsSpace(Head(s)) THEN TrimStart(Tail(s)) ELSE s

RECURSIVE TrimEnd(_)
TrimEnd(s) ==
    IF s # <<>> /\ IsSpace(s[Len(s)]) THEN TrimEnd(SubSeq(s, 1, Len(s) - 1)) ELSE s

Trim(s) == TrimEnd(TrimStart(s))

Digit(d) == CASE d = 0 -> "0" [] d = 1 -> "1" [] d = 2 -> "2" [] d = 3 -> "3"
              [] d = 4 -> "4" [] d = 5 -> "5" [] d = 6 -> "6" [] d = 7 -> "7"
              [] d = 8 -> "8" [] d = 9 -> "9"

\* `${n}` for a non-negative integer
RECURSIVE Decimal(_)
Decimal(n) == IF n < 10 THEN <<Digit(n)>> ELSE Decimal(n \div 10) \o <<Digit(n % 10)>>

\* the characters of a string of the module
NameText(name) == [i \in 1..Len(name) |-> SubSeq(name, i, i)]

\* JSON.stringify: <<character, escape sequence>> for the characters a JSON
\* string does not hold as themselves (quotation mark, reverse solidus and
\* the control characters U+0001..U+001F)
JsonEscapes ==
    {<<"\"",<<"\\","\"">>>>,<<"\\",<<"\\","\\">>>>,<<"",<<"\\","u","0","0","0","1">>>>,
     <<"",<<"\\","u","0","0","0","2">>>>,<<"",<<"\\","u","0","0","0","3">>>>,<<"",<<"\\","u","0","0","0","4">>>>,
     <<"",<<"\\","u","0","0","0","5">>>>,<<"",<<"\\","u","0","0","0","6">>>>,<<"",<<"\\","u","0","0","0","7">>>>,
     <<"",<<"\\","b">>>>,<<"\t",<<"\\","t">>>>,<<"\n",<<"\\","n">>>>,
     <<"",<<"\\","u","0","0","0","b">>>>,<<"\f",<<"\\","f">>>>,<<"\r",<<"\\","r">>>>,
     <<"",<<"\\","u","0","0","0","e">>>>,<<"",<<"\\","u","0","0","0","f">>>>,<<"",<<"\\","u","0","0","1","0">>>>,
     <<"",<<"\\","u","0","0","1","1">>>>,<<"",<<"\\","u","0","0","1","2">>>>,<<"",<<"\\","u","0","0","1","3">>>>,
     <<"",<<"\\","u","0","0","1","4">>>>,<<"",<<"\\","u","0","0","1","5">>>>,<<"",<<"\\","u","0","0","1","6">>>>,
     <<"",<<"\\","u","0","0","1","7">>>>,<<"",<<"\\","u","0","0","1","8">>>>,<<"",<<"\\","u","0","0","1","9">>>>,
     <<"",<<"\\","u","0","0","1","a">>>>,<<"",<<"\\","u","0","0","1","b">>>>,<<"",<<"\\","u","0","0","1","c">>>>,
     <<"",<<"\\","u","0","0","1","d">>>>,<<"",<<"\\","u","0","0","1","e">>>>,<<"",<<"\\","u","0","0","1","f">>>>}

JsonEscapeOf ==
    [c \in {p[1] : p \in JsonEscapes} |-> (CHOOSE p \in JsonEscapes : p[1] = c)[2]]

RECURSIVE JsonChars(_)
JsonChars(text) ==
    IF text = <<>> THEN <<>>
    ELSE (IF Head(text) \in DOMAIN JsonEscapeOf THEN JsonEscapeOf[Head(text)]
          ELSE <<Head(text)>>)
         \o JsonChars(Tail(text))

\* JSON.stringify of a string
JsonString(text) == <<"\"">> \o JsonChars(text) \o <<"\"">>

\* the JSON texts of a list, with commas between
RECURSIVE JsonJoin(_)
JsonJoin(items) ==
    IF items = <<>> THEN <<>>
    ELSE Head(items) \o (IF Len(items) > 1 THEN <<",">> ELSE <<>>)
         \o JsonJoin(Tail(items))

\* JSON.stringify of an array whose elements have the JSON texts `items`
JsonArray(items) == <<"[">> \o JsonJoin(items) \o <<"]">>

\* JSON.stringify of an object: members is <<key, JSON text of the value>>
\* for each property, in the order of the properties
JsonObject(members) ==
    <<"{">>
    \o JsonJoin([i \in 1..Len(members) |->
                    JsonString(NameText(members[i][1])) \o <<":">> \o members[i][2]])
    \o <<"}">>

StartsWith(s, prefix) ==
    Len(s) >= Len(prefix) /\ SubSeq(s, 1, Len(prefix)) = prefix

----------------------------------------------------------------------------
(* compactMessages                                                         *)

Roles == {"user", "assistant", "system"}

Msg(r, c) == [role |-> r, content |-> c]

\* m.role.toUpperCase()
RoleUpper(r) ==
    CASE r = "user" -> <<"U","S","E","R">>
      [] r = "assistant" -> <<"A","S","S","I","S","T","A","N","T">>
      [] r = "system" -> <<"S","Y","S","T","E","M">>

\* `${m.role.toUpperCase()}: ${m.content}`
OldLine(m) == RoleUpper(m.role) \o <<":", " ">> \o m.content

\* oldMsgs.map(...).join("\n\n")
RECURSIVE OldText(_)
OldText(old) ==
    IF old = <<>> THEN <<>>
    ELSE IF Len(old) = 1 THEN OldLine(old[1])
    ELSE OldLine(old[1]) \o <<"\n", "\n">> \o OldText(Tail(old))

SummaryInstruction ==
    "Summarize this conversation concisely, keeping key decisions, code changes, and context:\n\n"

\* the request of client.messages.create inside compactMessages
SummaryRequest(old) ==
    [max_tokens |-> 2048,
     messages |-> <<[role |-> "user",
                     instruction |-> SummaryInstruction,
                     oldText |-> OldText(old)]>>]

\* response.content.filter(text).map(b => b.text).join("")
RECURSIVE JoinText(_)
JoinText(blocks) ==
    IF blocks = <<>> THEN <<>>
    ELSE (IF Head(blocks).type = "text" THEN Head(blocks).text ELSE <<>>)
         \o JoinText(Tail(blocks))

SummaryPrefix(n) ==
    <<"[","S","u","m","m","a","r","y"," ","o","f"," ">> \o Decimal(n)
    \o <<" ","p","r","e","v","i","o","u","s"," ","m","e","s","s","a","g","e","s","]">>

\* `[Summary of ${oldMsgs.length} previous messages]\n${summary}`
SummaryContent(n, summary) == SummaryPrefix(n) \o <<"\n">> \o summary

SystemMsgs(msgs) == Filter(msgs, IsSystem)
NonSystemMsgs(msgs) == Filter(msgs, NotSystem)

\* mutant: the slice keeps one turn too many
RecentMsgs_OneMore(nonSystem, keepLast) ==
    JsSlice(nonSystem, -(keepLast + 1), Len(nonSystem))

\* nonSystemMsgs.slice(-keepLast)
RecentMsgs(nonSystem, keepLast) == JsSlice(nonSystem, -keepLast, Len(nonSystem))

\* mutant: no turn is ever old enough to be discarded
OldMsgs_None(nonSystem, keepLast) == <<>>

\* nonSystemMsgs.slice(0, -keepLast)
OldMsgs(nonSystem, keepLast) == JsSlice(nonSystem, 0, -keepLast)

\* mutant: the summary turn is put after the recent turns
CompactedResult_SummaryLast(systemMsgs, old, recent, summary) ==
    systemMsgs \o recent \o <<Msg("assistant", SummaryContent(Len(old), summary))>>

\* the list built on the success path
CompactedResult(systemMsgs, old, recent, summary) ==
    systemMsgs \o <<Msg("assistant", SummaryContent(Len(old), summary))>> \o recent

\* mutant: the fallback forgets the system turns
FallbackResult_RecentOnly(systemMsgs, recent) == recent

\* the list returned by the catch branch
FallbackResult(systemMsgs, recent) == systemMsgs \o recent

\* compactMessages(messages, keepLast) when the summarization request, if one
\* is issued, ends as `outcome` says: [ok |-> TRUE, content |-> blocks] or
\* [ok |-> FALSE].  Returns the list and the requests that were issued.
CompactMessages(msgs, keepLast, outcome) ==
    LET systemMsgs == SystemMsgs(msgs)
        nonSystemMsgs == NonSystemMsgs(msgs)
        recentMsgs == RecentMsgs(nonSystemMsgs, keepLast)
        oldMsgs == OldMsgs(nonSystemMsgs, keepLast)
    IN  IF Len(oldMsgs) = 0
        THEN [result |-> msgs, requests |-> <<>>, raised |-> FALSE]
        ELSE IF outcome.ok
        THEN [result |-> CompactedResult(systemMsgs, oldMsgs, recentMsgs,
                                         JoinText(outcome.content)),
              requests |-> <<SummaryRequest(oldMsgs)>>,
              raised |-> FALSE]
        ELSE [result |-> FallbackResult(systemMsgs, recentMsgs),
              requests |-> <<SummaryRequest(oldMsgs)>>,
              raised |-> FALSE]

----------------------------------------------------------------------------
(* SpecCompact: compactMessages applied once to a bounded input            *)

SeqsUpTo(S, n) == UNION {[1..k -> S] : k \in 0..n}

CContents == {<<"a">>, <<"b">>}
CTurns == {Msg(r, c) : r \in Roles, c \in CContents}

TextBlock(t) == [type |-> "text", text |-> t]
ToolUseBlock == [type |-> "tool_use", text |-> <<>>]

\* what the summarization request can do: fail, or answer with content blocks
SummaryOutcomes ==
    {[ok |-> FALSE, content |-> <<>>],
     [ok |-> TRUE, content |-> <<TextBlock(<<"s">>)>>],
     [ok |-> TRUE, content |-> <<ToolUseBlock, TextBlock(<<"s">>), TextBlock(<<"t">>)>>]}

IdleDb == store = <<>> /\ sessions = <<>>

\* no storage call has thrown in the current user turn; count is the number
\* of storage calls that have thrown so far
NoFault == [site |-> "none", error |-> [hasMessage |-> FALSE, message |-> <<>>], count |-> 0]

IdleAgent ==
    /\ pc = "off" /\ messages = <<>> /\ attempt = 0
    /\ lastInputTokens = 0 /\ containerId = "none" /\ userTurns = 0 /\ log = <<>>
    /\ fault = NoFault

IdleCompact ==
    /\ cPhase = "off" /\ cMessages = <<>> /\ cKeepLast = 0
    /\ cOutcome = [ok |-> FALSE, content |-> <<>>]
    /\ cResult = <<>> /\ cRequest = <<>>

IdleStore ==
    /\ spc = <<>> /\ sArg = <<>> /\ sLocal = <<>> /\ sPrior = <<>>
    /\ sOverlap = <<>> /\ sOps = 0

IdleSerial == qLast = <<>> /\ qOps = 0

IdleChat ==
    /\ chatPc = "off" /\ currentMsgs = <<>> /\ fullResponse = <<>>
    /\ totalInput = 0 /\ totalOutput = 0 /\ chatContainerId = "none"
    /\ requests = <<>> /\ responses = <<>> /\ execs = <<>>

NoContainer == [id |-> 0, status |-> "none"]

\* clean: every command and statement of the call worked and nothing else
\* touched the container or ran beside it; foundUp: docker ps -a listed the
\* container with a status holding "Up"
NoEnsure ==
    [op |-> "none", session |-> "", clean |-> TRUE, foundUp |-> FALSE,
     before |-> NoContainer, ret |-> 0, raised |-> FALSE, commands |-> <<>>]

IdleDocker ==
    /\ dContainer = NoContainer /\ dRecords = <<>> /\ dNextId = 0
    /\ dProc = <<>> /\ dLast = NoEnsure /\ dPrev = NoEnsure /\ dCalls = 0
    /\ dFaults = 0 /\ dOverlapped = {}

NoEstimate == [estimateA |-> 0, estimateB |-> 0, shouldA |-> FALSE, shouldB |-> FALSE]

IdleFn == ePhase = "off" /\ eA = <<>> /\ eB = <<>> /\ eOut = NoEstimate

IdleAux == IdleSerial /\ IdleChat /\ IdleDocker /\ IdleFn

InitCompact ==
    /\ IdleDb /\ IdleAgent /\ IdleStore /\ IdleAux
    /\ cPhase = "input"
    /\ cMessages \in SeqsUpTo(CTurns, MaxLen)
    /\ cKeepLast \in 0..MaxKeep
    /\ cOutcome \in SummaryOutcomes
    /\ cResult = <<>>
    /\ cRequest = <<>>

CompactCall ==
    /\ cPhase = "input"
    /\ LET r == CompactMessages(cMessages, cKeepLast, cOutcome)
       IN  /\ cResult' = r.result
           /\ cRequest' = r.requests
           /\ cPhase' = IF r.raised THEN "raised" ELSE "returned"
    /\ UNCHANGED <<cMessages, cKeepLast, cOutcome, dbVars, agentVars, storeVars, auxVars>>

NextCompact == CompactCall

SpecCompact == InitCompact /\ [][NextCompact]_vars

----------------------------------------------------------------------------
(* Claims about compactMessages (checked under SpecCompact)                *)

CNonSystem == SelectSeq(cMessages, LAMBDA m : m.role # "system")
CSystem == SelectSeq(cMessages, LAMBDA m : m.role = "system")
CDiscarded == Len(CNonSystem) - cKeepLast
LastK(s, k) == SubSeq(s, Len(s) - k + 1, Len(s))
CCalled == cPhase # "input"

\* C4 as stated: whenever more than keepLast (>= 1) non-system turns are given,
\* the returned list is strictly shorter than the input, on both paths.
C4_StrictlyShorter ==
    (CCalled /\ cKeepLast >= 1 /\ CDiscarded > 0)
        => Len(cResult) < Len(cMessages)

\* C4 amended: with keepLast >= 1 and d > 0 discarded turns the result has
\* length input - d on the fallback path and input - d + 1 on the success
\* path; it is never longer than the input, and strictly shorter except on
\* the success path with exactly one discarded turn.
C4_ShorterUnlessOneDiscarded ==
    (CCalled /\ cKeepLast >= 1 /\ CDiscarded > 0)
        => /\ cPhase = "returned"
           /\ Len(cResult) = Len(cMessages) - CDiscarded + (IF cOutcome.ok THEN 1 ELSE 0)
           /\ Len(cResult) <= Len(cMessages)
           /\ (Len(cResult) < Len(cMessages)) <=> ~(cOutcome.ok /\ CDiscarded = 1)

C4_Witness ==
    /\ cPhase = "returned" /\ cKeepLast >= 1 /\ CDiscarded >= 2 /\ cOutcome.ok
    /\ CSystem # <<>>
    /\ Len(cResult) < Len(cMessages)

\* C5 as stated: compactMessages returns its input unchanged and issues no
\* summarization request when the non-system count is <= keepLast, and
\* discards turns when it is > keepLast, for every keepLast >= 0.
C5_NoOpIffNothingToDiscard ==
    CCalled =>
        IF Len(CNonSystem) <= cKeepLast
        THEN cResult = cMessages /\ cRequest = <<>>
        ELSE cResult # cMessages /\ Len(SelectSeq(cResult, LAMBDA m : m \in CTurns /\ m.role # "system")) < Len(CNonSystem)

\* C6: when more than keepLast non-system turns are given and the
\* summarization request succeeds, the result is the system turns in order,
\* one assistant turn starting "[Summary of N previous messages]" with N the
\* number of discarded turns, then the last keepLast non-system turns.
C6_SummaryBetweenSystemAndRecent ==
    (CCalled /\ CDiscarded > 0 /\ cRequest # <<>> /\ cOutcome.ok)
        => /\ cPhase = "returned"
           /\ Len(cResult) = Len(CSystem) + 1 + cKeepLast
           /\ SubSeq(cResult, 1, Len(CSystem)) = CSystem
           /\ cResult[Len(CSystem) + 1].role = "assistant"
           /\ StartsWith(cResult[Len(CSystem) + 1].content,
                         <<"[","S","u","m","m","a","r","y"," ","o","f"," ">>
                         \o <<Digit(CDiscarded)>>
                         \o <<" ","p","r","e","v","i","o","u","s"," ",
                              "m","e","s","s","a","g","e","s","]">>)
           /\ SubSeq(cResult, Len(CSystem) + 2, Len(cResult)) = LastK(CNonSystem, cKeepLast)
           /\ Cardinality({i \in 1..Len(cResult) : cResult[i] \notin CTurns}) = 1

C6_Witness ==
    /\ cPhase = "returned" /\ cOutcome.ok /\ cRequest # <<>>
    /\ CDiscarded = 2 /\ cKeepLast = 1 /\ Len(CSystem) = 1
    /\ cMessages[2].role = "system"
    /\ CNonSystem[2] # CNonSystem[3]
    /\ cResult[3] = cMessages[4]

\* C7: when the summarization request fails, compactMessages does not raise
\* and returns the system turns followed by the last keepLast non-system
\* turns, with no summary turn.
C7_FallbackKeepsSystemAndRecent ==
    (CCalled /\ cRequest # <<>> /\ ~cOutcome.ok)
        => /\ cPhase = "returned"
           /\ cResult = CSystem \o LastK(CNonSystem, cKeepLast)
           /\ \A i \in 1..Len(cResult) : cResult[i] \in CTurns

C7_Witness ==
    /\ cPhase = "returned" /\ ~cOutcome.ok /\ cRequest # <<>>
    /\ CDiscarded >= 1 /\ cKeepLast >= 2 /\ CSystem # <<>>
    /\ cMessages[1].role # "system"

CResultNonSystem == SelectSeq(cResult, LAMBDA m : m.role # "system")

\* C27 as stated: with keepLast >= 1 and more than keepLast non-system
\* turns, the result has keepLast + 1 non-system turns on the success path
\* and keepLast on the fallback path, and the last turn of the result is
\* the last turn of the input.
C27_LastTurnOfInputKept ==
    (CCalled /\ cKeepLast >= 1 /\ CDiscarded > 0)
        => /\ Len(CResultNonSystem) = cKeepLast + (IF cOutcome.ok THEN 1 ELSE 0)
           /\ cResult[Len(cResult)] = cMessages[Len(cMessages)]

\* C27 amended: with keepLast >= 1 and more than keepLast non-system turns,
\* the result has keepLast + 1 non-system turns on the success path and
\* keepLast on the fallback path, and its last turn is the last non-system
\* turn of the input, which is the last turn of the input unless the input
\* ends with a system turn; an input without system turns, as the working
\* list of the agent loop is, gives at most keepLast + 1 turns that end
\* with the last turn of the input.
C27_LastNonSystemTurnKept ==
    (CCalled /\ cKeepLast >= 1 /\ CDiscarded > 0)
        => /\ Len(CResultNonSystem) = cKeepLast + (IF cOutcome.ok THEN 1 ELSE 0)
           /\ cResult[Len(cResult)] = CNonSystem[Len(CNonSystem)]
           /\ cMessages[Len(cMessages)].role # "system"
              => cResult[Len(cResult)] = cMessages[Len(cMessages)]
           /\ cMessages[Len(cMessages)].role = "system"
              => cResult[Len(cResult)] # cMessages[Len(cMessages)]
           /\ CSystem = <<>>
              => /\ Len(cResult) <= cKeepLast + 1
                 /\ cResult[Len(cResult)] = cMessages[Len(cMessages)]

\* an input that ends with a system turn: the result ends with the last
\* user turn instead
C27_Witness ==
    /\ cPhase = "returned" /\ cOutcome.ok /\ cKeepLast = 2 /\ CDiscarded = 1
    /\ cMessages[Len(cMessages)].role = "system"
    /\ cMessages[Len(cMessages) - 1].role = "user"
    /\ cResult[Len(cResult)] = cMessages[Len(cMessages) - 1]
    /\ Len(CResultNonSystem) = 3

----------------------------------------------------------------------------
(* Message store: saveMessage, loadMessages, clearMessages,                *)
(* saveCompactedMessages.  Each awaited statement is one atomic step of    *)
(* the database; the row id (a random UUID) and createdAt are not read by  *)
(* any query and are left out; a row's position in `store` is its rowid.   *)

SessionId == "s1"        \* the session the operations below work on
OtherSession == "s2"     \* another session sharing the table

Row(sid, seq, r, c) == [sessionId |-> sid, sequence |-> seq, role |-> r, content |-> c]

\* .where(eq(messages.sessionId, sessionId))
SessionRows(rows, sid) == SelectSeq(rows, LAMBDA r : r.sessionId = sid)

\* .orderBy(desc(messages.sequence)).limit(1), projected on sequence
MaxMessage(rows, sid) ==
    LET mine == SessionRows(rows, sid)
    IN  IF mine = <<>> THEN <<>>
        ELSE <<[sequence |-> CHOOSE q \in {mine[i].sequence : i \in 1..Len(mine)} :
                                \A j \in 1..Len(mine) : mine[j].sequence <= q]>>

\* (maxMessage[0]?.sequence ?? -1) + 1
\* mutant: the highest sequence is used again
NextSequence_KeepsMax(rows, sid) ==
    LET maxMessage == MaxMessage(rows, sid)
    IN  IF maxMessage = <<>> THEN 0 ELSE maxMessage[1].sequence

NextSequence(rows, sid) ==
    LET maxMessage == MaxMessage(rows, sid)
    IN  (IF maxMessage = <<>> THEN -1 ELSE maxMessage[1].sequence) + 1

\* db.insert(messages).values(...)
InsertRow(rows, row) == Append(rows, row)

\* mutant: the delete removes nothing
ClearMessages_KeepsRows(rows, sid) == rows

\* db.delete(messages).where(eq(messages.sessionId, sessionId))
ClearMessages(rows, sid) == SelectSeq(rows, LAMBDA r : r.sessionId # sid)

\* db.update(sessions).set({ updatedAt: new Date() }); time is the number of
\* writes to the sessions table so far
TouchSession(sess, sid) ==
    IF sid \in DOMAIN sess
    THEN [sess EXCEPT ![sid] = [updatedAt |-> @.updatedAt + 1]]
    ELSE sess

\* the orders in which ORDER BY sequence ASC may return rows: ascending by
\* sequence, rows of equal sequence in any order
RECURSIVE AscOrders(_, _)
AscOrders(mine, idx) ==
    IF idx = {} THEN {<<>>}
    ELSE LET least == {i \in idx : \A j \in idx : mine[i].sequence <= mine[j].sequence}
         IN  UNION {{<<mine[i]>> \o t : t \in AscOrders(mine, idx \ {i})} : i \in least}

\* the select of loadMessages: every row list the query may return
SelectMessages(rows, sid) ==
    LET mine == SessionRows(rows, sid) IN AscOrders(mine, 1..Len(mine))

\* dbMessages.map(msg => ({ role, content }))
ToCoreMessages(dbMessages) ==
    [i \in 1..Len(dbMessages) |-> Msg(dbMessages[i].role, dbMessages[i].content)]

\* every list loadMessages(sessionId) may return on `rows`
LoadMessages(rows, sid) == {ToCoreMessages(d) : d \in SelectMessages(rows, sid)}

\* saveMessage run without interruption: the rows afterwards
SaveMessage(rows, sid, r, c) == InsertRow(rows, Row(sid, NextSequence(rows, sid), r, c))

\* the insert loop of saveCompactedMessages from index i on
RECURSIVE InsertFrom(_, _, _, _)
InsertFrom(rows, sid, list, i) ==
    IF i >= Len(list) THEN rows
    ELSE InsertFrom(InsertRow(rows, Row(sid, i, list[i + 1].role, list[i + 1].content)),
                    sid, list, i + 1)

\* saveCompactedMessages run without interruption: the rows afterwards
SaveCompactedMessages(rows, sid, list) == InsertFrom(ClearMessages(rows, sid), sid, list, 0)

----------------------------------------------------------------------------
(* SpecStore: callers running store operations on one session, interleaved *)
(* at the await points of the operations                                   *)

Callers == {"c1", "c2"}

STurns == {Msg("user", <<"c">>), Msg("assistant", <<"d">>)}

\* what the table can hold when the callers start: rows of another session,
\* and either nothing or a saved exchange of this session
InitialStores ==
    {<<Row(OtherSession, 0, "user", <<"z">>)>>,
     <<Row(SessionId, 0, "user", <<"a">>),
       Row(OtherSession, 0, "user", <<"z">>),
       Row(SessionId, 1, "assistant", <<"b">>)>>}

\* a compacted list of n turns: a summary-like assistant turn first, then
\* user and assistant turns in alternation
Batch(n) ==
    [i \in 1..n |-> IF i % 2 = 1 THEN Msg("assistant", <<"d">>) ELSE Msg("user", <<"c">>)]

InitialSessions == [sid \in {SessionId, OtherSession} |-> [updatedAt |-> 0]]

NoArg == [op |-> "none", role |-> "user", content |-> <<>>, list |-> <<>>]
NoLocal == [nextSequence |-> 0, i |-> 0, rows |-> <<>>, result |-> <<>>, during |-> [q \in Callers |-> <<>>]]

InFlight(q) == spc[q] # "idle"
IsWrite(arg) == arg.op \in {"saveMessage", "saveCompacted"}
Writing(q) == InFlight(q) /\ IsWrite(sArg[q])

InitStore ==
    /\ IdleAgent /\ IdleCompact /\ IdleAux
    /\ store \in InitialStores
    /\ sessions = InitialSessions
    /\ spc = [p \in Callers |-> "idle"]
    /\ sArg = [p \in Callers |-> NoArg]
    /\ sLocal = [p \in Callers |-> NoLocal]
    /\ sPrior = [p \in Callers |-> <<>>]
    /\ sOverlap = [p \in Callers |-> FALSE]
    /\ sOps = 0

\* a caller enters an operation: everything up to its first await
Begin(p, arg, first) ==
    /\ spc[p] = "idle"
    /\ sOps < MaxOps
    /\ spc' = [spc EXCEPT ![p] = first]
    /\ sArg' = [sArg EXCEPT ![p] = arg]
    /\ sLocal' = [sLocal EXCEPT ![p] = NoLocal]
    /\ sPrior' = [q \in Callers |->
                    IF q = p
                    THEN IF arg.op = "saveCompacted" /\ ~\E r \in Callers \ {p} : Writing(r)
                         THEN SessionRows(store, SessionId) ELSE <<>>
                    ELSE IF sArg[q].op = "saveCompacted" /\ IsWrite(arg)
                         THEN <<>> ELSE sPrior[q]]
    /\ sOverlap' = [q \in Callers |->
                      IF q = p
                      THEN arg.op = "saveCompacted" /\ \E r \in Callers \ {p} : Writing(r)
                      ELSE sOverlap[q] \/ (sArg[q].op = "saveCompacted" /\ IsWrite(arg))]
    /\ sOps' = sOps + 1
    /\ UNCHANGED <<dbVars, agentVars, compactVars, auxVars>>

BeginSaveMessage(p) ==
    \E m \in STurns :
        Begin(p, [op |-> "saveMessage", role |-> m.role, content |-> m.content,
                  list |-> <<>>], "sm_select")

BeginSaveCompacted(p) ==
    \E n \in 0..MaxBatch :
        Begin(p, [op |-> "saveCompacted", role |-> "user", content |-> <<>>,
                  list |-> Batch(n)], "sc_clear")

BeginLoad(p) ==
    Begin(p, [op |-> "load", role |-> "user", content |-> <<>>, list |-> <<>>],
          "ld_select")

Step(p, from, to, local) ==
    /\ spc[p] = from
    /\ spc' = [spc EXCEPT ![p] = to]
    /\ sLocal' = [sLocal EXCEPT ![p] = local]
    /\ UNCHANGED <<sArg, sPrior, sOverlap, sOps, agentVars, compactVars, auxVars>>

\* saveMessage: the select of the highest sequence
SmSelect(p) ==
    /\ Step(p, "sm_select", "sm_insert",
            [sLocal[p] EXCEPT !.nextSequence = NextSequence(store, SessionId)])
    /\ UNCHANGED dbVars

\* saveMessage: the insert
SmInsert(p) ==
    /\ Step(p, "sm_insert", "sm_update", sLocal[p])
    /\ store' = InsertRow(store, Row(SessionId, sLocal[p].nextSequence,
                                      sArg[p].role, sArg[p].content))
    /\ UNCHANGED sessions

\* saveMessage: the update of the session's updatedAt
SmUpdate(p) ==
    /\ Step(p, "sm_update", "sm_done", sLocal[p])
    /\ sessions' = TouchSession(sessions, SessionId)
    /\ UNCHANGED store

\* saveCompactedMessages: clearMessages
ScClear(p) ==
    /\ Step(p, "sc_clear",
            IF 0 < Len(sArg[p].list) THEN "sc_insert" ELSE "sc_done",
            [sLocal[p] EXCEPT !.i = 0])
    /\ store' = ClearMessages(store, SessionId)
    /\ UNCHANGED sessions

\* saveCompactedMessages: one iteration of the insert loop
ScInsert(p) ==
    LET i == sLocal[p].i
        msg == sArg[p].list[i + 1]
    IN  /\ Step(p, "sc_insert",
                IF i + 1 < Len(sArg[p].list) THEN "sc_insert" ELSE "sc_done",
                [sLocal[p] EXCEPT !.i = i + 1])
        /\ store' = InsertRow(store, Row(SessionId, i, msg.role, msg.content))
        /\ UNCHANGED sessions

\* compactions in flight that no other writing call has overlapped
CleanCompactions(p) ==
    [q \in Callers |->
        IF q # p /\ spc[q] \in {"sc_clear", "sc_insert"} /\ ~sOverlap[q]
        THEN <<[prior |-> sPrior[q], new |-> sArg[q].list]>>
        ELSE <<>>]

\* loadMessages: the select and the mapping of its rows
LdSelect(p) ==
    /\ \E d \in SelectMessages(store, SessionId) :
          Step(p, "ld_select", "ld_done",
               [sLocal[p] EXCEPT !.rows = d, !.result = ToCoreMessages(d),
                                 !.during = CleanCompactions(p)])
    /\ UNCHANGED dbVars

\* the operation's promise resolves and the caller is free again
Return(p) ==
    /\ spc[p] \in {"sm_done", "sc_done", "ld_done"}
    /\ spc' = [spc EXCEPT ![p] = "idle"]
    /\ sArg' = [sArg EXCEPT ![p] = NoArg]
    /\ sLocal' = [sLocal EXCEPT ![p] = NoLocal]
    /\ sPrior' = [sPrior EXCEPT ![p] = <<>>]
    /\ sOverlap' = [sOverlap EXCEPT ![p] = FALSE]
    /\ UNCHANGED <<sOps, dbVars, agentVars, compactVars, auxVars>>

NextStore ==
    \E p \in Callers :
        \/ BeginSaveMessage(p)
        \/ BeginSaveCompacted(p)
        \/ BeginLoad(p)
        \/ SmSelect(p)
        \/ SmInsert(p)
        \/ SmUpdate(p)
        \/ ScClear(p)
        \/ ScInsert(p)
        \/ LdSelect(p)
        \/ Return(p)

SpecStore == InitStore /\ [][NextStore]_vars

----------------------------------------------------------------------------
(* Claims about the store (checked under SpecStore)                        *)

\* C8: under every interleaving of saveMessage and saveCompactedMessages the
\* stored turns of the session have pairwise distinct sequence numbers and
\* loadMessages selects them strictly increasing by sequence number.
C8_DistinctIncreasingSequences ==
    LET mine == SessionRows(store, SessionId)
    IN  /\ \A i, j \in 1..Len(mine) : i # j => mine[i].sequence # mine[j].sequence
        /\ \A p \in DOMAIN spc :
              spc[p] = "ld_done" =>
                \A i \in 1..(Len(sLocal[p].rows) - 1) :
                    sLocal[p].rows[i].sequence < sLocal[p].rows[i + 1].sequence

\* C9: a loadMessages that reads while one saveCompactedMessages is in
\* flight returns the complete prior turn list or the complete new one.
C9_LoadSeesPriorOrNew ==
    \A p \in DOMAIN spc :
        spc[p] = "ld_done" =>
            \A q \in DOMAIN sLocal[p].during :
                \A k \in 1..Len(sLocal[p].during[q]) :
                    LET w == sLocal[p].during[q][k]
                    IN  \/ sLocal[p].result \in LoadMessages(w.prior, SessionId)
                        \/ sLocal[p].result = w.new

\* C10: once saveCompactedMessages(session, turns) has completed with no
\* other writing call overlapping it, loadMessages returns exactly `turns`
\* and the stored sequence numbers are 0..N-1 in that order.
C10_ReplaceThenLoad ==
    \A p \in DOMAIN spc :
        (spc[p] = "sc_done" /\ ~sOverlap[p]) =>
            /\ LoadMessages(store, SessionId) = {sArg[p].list}
            /\ \A d \in SelectMessages(store, SessionId) :
                  /\ Len(d) = Len(sArg[p].list)
                  /\ \A i \in 1..Len(d) : d[i].sequence = i - 1

C10_Witness ==
    \E p \in DOMAIN spc :
        /\ spc[p] = "sc_done" /\ ~sOverlap[p]
        /\ Len(sArg[p].list) = 2
        /\ Len(sPrior[p]) = 3
        /\ \E r \in LoadMessages(store, SessionId) : r = sArg[p].list

----------------------------------------------------------------------------
(* SpecSerial: one caller making store calls one after another; a call may *)
(* be cut short by a write that throws                                     *)

\* ids crypto.randomUUID() can produce
Uuids == {SessionId, OtherSession, "s3", "s4"}

\* the optional sessionId argument: "" stands for undefined
GivenIds == {""} \cup Uuids

\* mutant: the lookup of the given id is skipped
GetOrCreateSession_AlwaysCreates(sess, sessionId, uuid) ==
    IF uuid \in DOMAIN sess
    THEN [sessions |-> sess, ret |-> "", raised |-> TRUE]
    ELSE [sessions |-> [id \in DOMAIN sess \cup {uuid} |->
                           IF id = uuid THEN [updatedAt |-> 0] ELSE sess[id]],
          ret |-> uuid, raised |-> FALSE]

\* getOrCreateSession(sessionId) with crypto.randomUUID() returning uuid; the
\* insert throws when uuid is already a primary key of the table
GetOrCreateSession(sess, sessionId, uuid) ==
    IF sessionId # "" /\ sessionId \in DOMAIN sess
    THEN [sessions |-> sess, ret |-> sessionId, raised |-> FALSE]
    ELSE IF uuid \in DOMAIN sess
    THEN [sessions |-> sess, ret |-> "", raised |-> TRUE]
    ELSE [sessions |-> [id \in DOMAIN sess \cup {uuid} |->
                           IF id = uuid THEN [updatedAt |-> 0] ELSE sess[id]],
          ret |-> uuid, raised |-> FALSE]

\* the statements of saveMessage that write or read the tables
SaveMessageSteps == {"select", "insert", "update"}

\* saveMessage whose statement `at` throws: the rows afterwards
SaveMessageFails(rows, sid, r, c, at) ==
    IF at = "update" THEN SaveMessage(rows, sid, r, c) ELSE rows

\* saveCompactedMessages whose write number `at` throws: write 0 is the delete
\* of clearMessages, write k the insert of the k-th turn; the rows afterwards
SaveCompactedFails(rows, sid, list, at) ==
    IF at = 0 THEN rows
    ELSE InsertFrom(ClearMessages(rows, sid), sid, SubSeq(list, 1, at - 1), 0)

NoCall ==
    [op |-> "none", given |-> "", role |-> "user", content |-> <<>>, list |-> <<>>,
     store |-> <<>>, sessions |-> <<>>, ret |-> "", result |-> <<>>, raised |-> FALSE,
     prevOp |-> "none", prevRaised |-> FALSE, prevLen |-> 0]

\* the record of a call made on the tables as they are now
Call(op) ==
    [NoCall EXCEPT !.op = op, !.store = store, !.sessions = sessions,
                   !.prevOp = qLast.op, !.prevRaised = qLast.raised,
                   !.prevLen = Len(qLast.list)]

InitSerial ==
    /\ IdleAgent /\ IdleCompact /\ IdleStore /\ IdleChat /\ IdleDocker /\ IdleFn
    /\ store \in InitialStores
    /\ sessions = InitialSessions
    /\ qLast = NoCall
    /\ qOps = 0

Serial(call) ==
    /\ qOps < MaxOps
    /\ qOps' = qOps + 1
    /\ qLast' = call
    /\ UNCHANGED <<agentVars, compactVars, storeVars, chatVars, dockerVars, fnVars>>

SerialGetOrCreate ==
    \E given \in GivenIds, uuid \in Uuids :
        LET r == GetOrCreateSession(sessions, given, uuid)
        IN  /\ Serial([Call("getOrCreateSession") EXCEPT
                          !.given = given, !.ret = r.ret, !.raised = r.raised])
            /\ sessions' = r.sessions
            /\ UNCHANGED store

SerialSaveMessage ==
    \E m \in STurns :
        /\ Serial([Call("saveMessage") EXCEPT !.role = m.role, !.content = m.content])
        /\ store' = SaveMessage(store, SessionId, m.role, m.content)
        /\ sessions' = TouchSession(sessions, SessionId)

SerialSaveMessageFails ==
    \E m \in STurns, at \in SaveMessageSteps :
        /\ Serial([Call("saveMessage") EXCEPT !.role = m.role, !.content = m.content,
                                              !.raised = TRUE])
        /\ store' = SaveMessageFails(store, SessionId, m.role, m.content, at)
        /\ UNCHANGED sessions

SerialSaveCompacted ==
    \E n \in 0..MaxBatch :
        /\ Serial([Call("saveCompacted") EXCEPT !.list = Batch(n)])
        /\ store' = SaveCompactedMessages(store, SessionId, Batch(n))
        /\ UNCHANGED sessions

SerialSaveCompactedFails ==
    \E n \in 0..MaxBatch :
        \E at \in 0..n :
            /\ Serial([Call("saveCompacted") EXCEPT !.list = Batch(n), !.raised = TRUE])
            /\ store' = SaveCompactedFails(store, SessionId, Batch(n), at)
            /\ UNCHANGED sessions

SerialLoad ==
    \E result \in LoadMessages(store, SessionId) :
        /\ Serial([Call("load") EXCEPT !.result = result])
        /\ UNCHANGED dbVars

NextSerial ==
    \/ SerialGetOrCreate
    \/ SerialSaveMessage
    \/ SerialSaveMessageFails
    \/ SerialSaveCompacted
    \/ SerialSaveCompactedFails
    \/ SerialLoad

SpecSerial == InitSerial /\ [][NextSerial]_vars

----------------------------------------------------------------------------
(* Claims about calls made one after another (checked under SpecSerial)    *)

\* C11: when a write of saveCompactedMessages throws, the session's stored
\* turns are the complete set stored before the call: not an empty set and
\* not a prefix of the new set.
C11_FailedReplaceKeepsPrior ==
    (qLast.op = "saveCompacted" /\ qLast.raised)
    => SessionRows(store, SessionId) = SessionRows(qLast.store, SessionId)

\* C18: getOrCreateSession(id) returns id and creates nothing when a session
\* with that id exists; otherwise, when it returns, exactly one session
\* record has been created, under the returned id, which no session had
\* before; no existing session record is ever changed or removed.
C18_GetOrCreateSession ==
    qLast.op = "getOrCreateSession" =>
        LET old == qLast.sessions
        IN  /\ \A id \in DOMAIN old : id \in DOMAIN sessions /\ sessions[id] = old[id]
            /\ store = qLast.store
            /\ qLast.given \in DOMAIN old =>
                  /\ ~qLast.raised
                  /\ qLast.ret = qLast.given
                  /\ DOMAIN sessions = DOMAIN old
            /\ (qLast.given \notin DOMAIN old /\ ~qLast.raised) =>
                  /\ qLast.ret \notin DOMAIN old
                  /\ DOMAIN sessions = DOMAIN old \cup {qLast.ret}
            /\ qLast.raised => DOMAIN sessions = DOMAIN old

C18_Witness ==
    /\ qLast.op = "getOrCreateSession"
    /\ qLast.given = "s3"
    /\ ~qLast.raised
    /\ qLast.ret = "s4"
    /\ DOMAIN sessions = {SessionId, OtherSession, "s4"}

\* C19: in calls made one after another, a saveMessage that returns has
\* appended one row to the session, with sequence one greater than the
\* highest sequence the session had (0 when it had no rows): right after a
\* saveCompactedMessages of N turns the row gets sequence N; loadMessages
\* returns the session's turns in the order they were inserted.
C19_AppendsAfterMaximum ==
    /\ (qLast.op = "saveMessage" /\ ~qLast.raised) =>
          LET before == SessionRows(qLast.store, SessionId)
              after == SessionRows(store, SessionId)
              seqs == {before[i].sequence : i \in 1..Len(before)}
              next == IF seqs = {} THEN 0
                      ELSE 1 + CHOOSE m \in seqs : \A k \in seqs : k <= m
          IN  /\ Len(after) = Len(before) + 1
              /\ SubSeq(after, 1, Len(before)) = before
              /\ after[Len(after)] = Row(SessionId, next, qLast.role, qLast.content)
              /\ (qLast.prevOp = "saveCompacted" /\ ~qLast.prevRaised)
                    => after[Len(after)].sequence = qLast.prevLen
    /\ qLast.op = "load" =>
          qLast.result = ToCoreMessages(SessionRows(store, SessionId))

C19_Witness ==
    /\ qLast.op = "saveMessage" /\ ~qLast.raised
    /\ qLast.prevOp = "saveCompacted" /\ ~qLast.prevRaised
    /\ qLast.prevLen = 2
    /\ Len(SessionRows(store, SessionId)) = 3
    /\ SessionRows(store, SessionId)[3].sequence = 2

----------------------------------------------------------------------------
(* The agent loop of main(): one user turn at a time, a retry loop of at   *)
(* most two attempts around chat(), emergency compaction on overflow and   *)
(* proactive compaction after a successful response                        *)

COMPACT_THRESHOLD == 150000
DefaultKeepLast == 6
EmergencyKeepLast == 4

\* mutant: the threshold itself already compacts
ShouldCompact_AtThreshold(inputTokens) == inputTokens >= COMPACT_THRESHOLD

\* shouldCompact(inputTokens)
ShouldCompact(inputTokens) == inputTokens > COMPACT_THRESHOLD

OverflowMarks ==
    {<<"c","o","n","t","e","x","t">>, <<"t","o","k","e","n">>,
     <<"t","o","o"," ","l","o","n","g">>}

\* String(error?.message || "")
ErrorText(error) == IF error.hasMessage THEN error.message ELSE <<>>

\* isContextOverflowError(error)
IsContextOverflowError(error) ==
    LET msg == ToLowerCase(ErrorText(error))
    IN  \E mark \in OverflowMarks : Includes(msg, mark)

\* `Error: ${error.message}`
ErrorContent(error) ==
    <<"E","r","r","o","r",":"," ">>
    \o (IF error.hasMessage THEN error.message
        ELSE <<"u","n","d","e","f","i","n","e","d">>)

\* input.toLowerCase() === "exit"
IsExit(input) == ToLowerCase(input) = <<"e","x","i","t">>

\* !input.trim()
IsBlank(input) == Trim(input) = <<>>

\* ---- chat(): content blocks, tools and the turns of the inner loop ----

\* a turn whose content is an array of content blocks, not a string
BlockMsg(r, blocks) == [role |-> r, blocks |-> blocks]

\* typeof m.content === "string"
IsTextTurn(m) == DOMAIN m = {"role", "content"}

\* content blocks of a response
\* the input the model gives with a tool: <<property, text>> in the order of
\* the properties
ToolInput(name) ==
    CASE name = "executeCommand" -> <<<<"command", <<"l","s">>>>>>
      [] name = "readFile" -> <<<<"path", <<"a">>>>>>
      [] name = "writeFile" -> <<<<"path", <<"a">>>>, <<"content", <<"b">>>>>>
      [] name = "listDirectory" -> <<<<"path", <<".">>>>>>
      [] OTHER -> <<>>

ChatText(t) == [type |-> "text", text |-> t, id |-> "", name |-> "", input |-> <<>>]
ToolUse(id, name) ==
    [type |-> "tool_use", text |-> <<>>, id |-> id, name |-> name,
     input |-> ToolInput(name)]

\* what `docker exec` and the following `docker ps` can do: the command
\* runs; the command fails in a running container and docker ps lists it;
\* the container is gone, docker exec fails and docker ps lists nothing;
\* docker exec and docker ps both fail
ExecOutcomes == {"ok", "failed", "gone", "crashed"}

\* what a file tool (readFile, writeFile, listDirectory) can do
FileOutcomes == {"ok", "failed"}

\* the command of `docker exec` exits with an error
CommandFails(outcome) == outcome # "ok"

\* the container is running when `docker ps` is asked
StillRunning(outcome) == outcome \in {"ok", "failed"}

\* what a command that runs prints
CommandOutput == <<"o","u","t">>

\* what readFile reads and what listDirectory finds
FileContent == <<"d">>
DirEntries == <<[name |-> <<"a">>, type |-> "file", size |-> 1]>>

\* error.message of a failed execAsync
CommandFailedText == <<"C","o","m","m","a","n","d"," ","f","a","i","l","e","d">>

ContainerCrashedText ==
    <<"C","o","n","t","a","i","n","e","r"," ","c","r","a","s","h","e","d"," ",
      "o","r"," ","w","a","s"," ","r","e","m","o","v","e","d">>

\* execInContainer(containerId, command): what it returns or throws
ExecInContainer(outcome) ==
    IF outcome = "ok"
    THEN [thrown |-> FALSE, message |-> <<>>, stdout |-> CommandOutput,
          stderr |-> <<>>]
    ELSE IF outcome = "crashed"
    THEN [thrown |-> TRUE, message |-> ContainerCrashedText, stdout |-> <<>>,
          stderr |-> <<>>]
    ELSE [thrown |-> FALSE, message |-> <<>>, stdout |-> <<>>,
          stderr |-> CommandFailedText]

\* executeTool(name, input, containerId): the object that is stringified
FileTools == {"readFile", "writeFile", "listDirectory"}

FileErrorText == <<"E","N","O","E","N","T">>

UnknownToolText == <<"U","n","k","n","o","w","n"," ","t","o","o","l">>

\* the object of a payload: keys are its properties in their order, the
\* other fields their values (success is "absent" where the object has none)
Payload(keys, success, error, stdout, stderr, content, entries) ==
    [keys |-> keys, success |-> success, error |-> error, stdout |-> stdout,
     stderr |-> stderr, content |-> content, entries |-> entries]

\* { success: false, error: e.message }
FailurePayload(message) ==
    Payload(<<"success", "error">>, "false", message, <<>>, <<>>, <<>>, <<>>)

ExecuteTool(name, outcome) ==
    IF name \in FileTools
    THEN IF outcome # "ok" THEN FailurePayload(FileErrorText)
         ELSE IF name = "readFile"
         THEN Payload(<<"success", "content">>, "true", <<>>, <<>>, <<>>,
                      FileContent, <<>>)
         ELSE IF name = "writeFile"
         THEN Payload(<<"success">>, "true", <<>>, <<>>, <<>>, <<>>, <<>>)
         ELSE Payload(<<"success", "entries">>, "true", <<>>, <<>>, <<>>, <<>>,
                      DirEntries)
    ELSE IF name = "executeCommand"
    THEN LET result == ExecInContainer(outcome)
         IN  IF result.thrown
             THEN FailurePayload(result.message)
             ELSE Payload(<<"success", "stdout", "stderr">>, "true", <<>>,
                          result.stdout, result.stderr, <<>>, <<>>)
    ELSE Payload(<<"error">>, "absent", UnknownToolText, <<>>, <<>>, <<>>, <<>>)

\* toolResults.push({ type: "tool_result", tool_use_id: block.id, content: result })
ToolResult(block, outcome) ==
    [type |-> "tool_result", tool_use_id |-> block.id,
     content |-> ExecuteTool(block.name, outcome)]

IsToolUse(block) == block.type = "tool_use"

\* let hasToolUse: some block of the content is a tool_use block
HasToolUse(content) == \E i \in 1..Len(content) : IsToolUse(content[i])

\* the toolResults array after the for loop over res.content
RECURSIVE ToolResults(_, _)
ToolResults(content, outcomes) ==
    IF content = <<>> THEN <<>>
    ELSE (IF IsToolUse(Head(content))
          THEN <<ToolResult(Head(content), Head(outcomes))>> ELSE <<>>)
         \o ToolResults(Tail(content), Tail(outcomes))

\* the text the for loop appends to fullResponse
RECURSIVE ResponseText(_)
ResponseText(content) ==
    IF content = <<>> THEN <<>>
    ELSE (IF Head(content).type = "text" THEN Head(content).text ELSE <<>>)
         \o ResponseText(Tail(content))

\* the execInContainer calls of the for loop: container and outcome of each
RECURSIVE ExecCalls(_, _, _)
ExecCalls(content, outcomes, container) ==
    IF content = <<>> THEN <<>>
    ELSE (IF IsToolUse(Head(content)) /\ Head(content).name = "executeCommand"
          THEN <<[container |-> container, outcome |-> Head(outcomes),
                  result |-> ExecInContainer(Head(outcomes))]>> ELSE <<>>)
         \o ExecCalls(Tail(content), Tail(outcomes), container)

\* mutant: the loop goes on whenever a tool was used
LoopsAgain_IgnoresStop(content, stop_reason) == HasToolUse(content)

\* the negation of `if (!hasToolUse || res.stop_reason === "end_turn") break`
LoopsAgain(content, stop_reason) == HasToolUse(content) /\ stop_reason # "end_turn"

\* currentMsgs after the two pushes at the end of an iteration
NextMsgs(msgs, content, outcomes) ==
    msgs \o <<BlockMsg("assistant", content),
              BlockMsg("user", ToolResults(content, outcomes))>>

\* ---- the lists of main() ----

\* JSON.stringify of an entry of listDirectory
EntryJson(entry) ==
    JsonObject(<<<<"name", JsonString(entry.name)>>,
                 <<"type", JsonString(NameText(entry.type))>>,
                 <<"size", Decimal(entry.size)>>>>)

\* JSON.stringify of the value of property `key` of a payload
PayloadValue(payload, key) ==
    CASE key = "success" ->
             (IF payload.success = "true" THEN <<"t","r","u","e">>
              ELSE <<"f","a","l","s","e">>)
      [] key = "containerCrashed" ->
             (IF payload.containerCrashed THEN <<"t","r","u","e">>
              ELSE <<"f","a","l","s","e">>)
      [] key = "exitCode" -> Decimal(payload.exitCode)
      [] key = "entries" ->
             JsonArray([i \in 1..Len(payload.entries) |-> EntryJson(payload.entries[i])])
      [] OTHER -> JsonString(payload[key])

\* the string executeTool returns: JSON.stringify of the payload
PayloadJson(payload) ==
    JsonObject([i \in 1..Len(payload.keys) |->
                   <<payload.keys[i], PayloadValue(payload, payload.keys[i])>>])

\* JSON.stringify of a content block; the content of a tool_result block
\* is the string executeTool returned
BlockJson(block) ==
    CASE block.type = "text" ->
             JsonObject(<<<<"type", JsonString(NameText("text"))>>,
                          <<"text", JsonString(block.text)>>>>)
      [] block.type = "tool_use" ->
             JsonObject(<<<<"type", JsonString(NameText("tool_use"))>>,
                          <<"id", JsonString(NameText(block.id))>>,
                          <<"name", JsonString(NameText(block.name))>>,
                          <<"input",
                            JsonObject([i \in 1..Len(block.input) |->
                                <<block.input[i][1], JsonString(block.input[i][2])>>])>>>>)
      [] block.type = "tool_result" ->
             JsonObject(<<<<"type", JsonString(NameText("tool_result"))>>,
                          <<"tool_use_id", JsonString(NameText(block.tool_use_id))>>,
                          <<"content", JsonString(PayloadJson(block.content))>>>>)

\* JSON.stringify(m.content) of an array of content blocks, between the
\* brackets
StringifyBlocks(blocks) == JsonJoin([i \in 1..Len(blocks) |-> BlockJson(blocks[i])])

\* JSON.stringify(m.content) of an array of content blocks
Stringify(blocks) == <<"[">> \o StringifyBlocks(blocks) \o <<"]">>

\* messages.map(m => ({ role: m.role, content: typeof m.content === "string"
\*                      ? m.content : JSON.stringify(m.content) }))
ToCore(msgs) ==
    [i \in 1..Len(msgs) |->
        IF IsTextTurn(msgs[i]) THEN Msg(msgs[i].role, msgs[i].content)
        ELSE Msg(msgs[i].role, Stringify(msgs[i].blocks))]

\* the tool_use responses chat() handled before the response that ended
\* its loop: none, or one that ran a command
ToolRuns == {<<>>, <<ToolUse("t1", "executeCommand")>>}

\* tools are used in the first MaxToolTurns user turns only
ToolRunsIn(turn) == IF turn <= MaxToolTurns THEN ToolRuns ELSE {<<>>}

\* currentMsgs of chat(messages, containerId) when its loop ended
LocalMsgs(msgs, run) == IF run = <<>> THEN msgs ELSE NextMsgs(msgs, run, <<"ok">>)

\* mutant: chat() pushes its turns on the list of the caller
AfterChat_SharedList(msgs, local) == local

\* the list of the caller after chat(): `let currentMsgs = [...messages]`
\* is a copy, the pushes of chat() are made on the copy
AfterChat(msgs, local) == msgs

\* compacted.filter(m => m.role !== "system").map(...)
WorkingList(compacted) == ToCore(NonSystemMsgs(compacted))

\* mutant: the catch branch compacts with the default keepLast
EmergencyCall_DefaultKeep(core) == [arg |-> core, keepLast |-> DefaultKeepLast]

\* the compactMessages call of the catch branch: compactMessages(core, 4)
EmergencyCall(core) == [arg |-> core, keepLast |-> EmergencyKeepLast]

\* the compactMessages call after a response: compactMessages(core)
ProactiveCall(core) == [arg |-> core, keepLast |-> DefaultKeepLast]

\* the condition of the catch branch that compacts and retries
\* mutant: the second attempt may compact and retry as well
RetriesAfter_Twice(error, att) == IsContextOverflowError(error) /\ att <= 1

RetriesAfter(error, att) == IsContextOverflowError(error) /\ att = 0

\* if (response.trim()) : the response is saved and pushed
KeepsResponse(response) == Trim(response) # <<>>

\* ---- what the outside world can hand to the loop ----
InputTexts == {<<"h","i">>, <<"E","x","i","t">>, <<" ">>}
ResponseTexts == {<<"o","k">>, <<" ","\n">>}
TokenCounts == {COMPACT_THRESHOLD, COMPACT_THRESHOLD + 1}
ChatErrors ==
    {[hasMessage |-> TRUE, message |-> <<"T","o","o"," ","L","o","n","g">>],
     [hasMessage |-> TRUE, message |-> <<"t","i","m","e","o","u","t">>],
     [hasMessage |-> FALSE, message |-> <<>>]}
AgentSummaryOutcomes ==
    {[ok |-> FALSE, content |-> <<>>],
     [ok |-> TRUE, content |-> <<TextBlock(<<"s">>)>>]}
\* checkContainerHealth is true; or it is false and ensureDockerContainer
\* returns the id of the started container, returns the id of a new one, or throws
HealthOutcomes == {"healthy", "restarted", "recreated", "failed"}
ContainerIds == {"k1", "k2"}

\* containerId after the health check of a user turn or after start-up
EnsuredContainer(current, health) ==
    IF health = "recreated" THEN CHOOSE k \in ContainerIds : k # current ELSE current

\* a saved exchange of n turns: user and assistant turns in alternation
History(n) ==
    [i \in 1..n |-> IF i % 2 = 1 THEN Msg("user", <<"q">> \o Decimal(i))
                                 ELSE Msg("assistant", <<"r">> \o Decimal(i))]

\* ---- the calls of one user turn, as a test double would record them ----
ChatEvent(req, ret) ==
    [call |-> "chat", arg |-> req, keepLast |-> 0, ret |-> ret, local |-> req]
ToolChatEvent(req, ret, local) == [ChatEvent(req, ret) EXCEPT !.local = local]
CompactEvent(c, r) ==
    [call |-> "compactMessages", arg |-> c.arg, keepLast |-> c.keepLast, ret |-> r.result]
SaveCompactedEvent(list) ==
    [call |-> "saveCompactedMessages", arg |-> list, keepLast |-> 0, ret |-> <<>>]
SaveMessageEvent(r, c) ==
    [call |-> "saveMessage", arg |-> <<Msg(r, c)>>, keepLast |-> 0, ret |-> <<>>]

\* main() after start-up: the session exists, its saved turns are loaded
\* and the system turns are filtered out of the working list
StartedWith(saved) ==
    /\ IdleCompact /\ IdleStore /\ IdleAux
    /\ \E n \in saved :
          store = <<Row(OtherSession, 0, "user", <<"z">>)>>
                  \o SaveCompactedMessages(<<>>, SessionId, History(n))
    /\ sessions = InitialSessions
    /\ messages \in {WorkingList(l) : l \in LoadMessages(store, SessionId)}
    /\ pc = "ask"
    /\ attempt = 0
    /\ lastInputTokens = 0
    /\ containerId = "k1"
    /\ userTurns = 0
    /\ log = <<>>
    /\ fault = NoFault

\* a new session, or one with MaxHistory saved turns
Init == StartedWith({0, MaxHistory})

\* rl.question resolves with a line: exit, a blank line, or a user turn that
\* is saved, pushed and followed by the container health check
UserInput ==
    /\ pc = "ask"
    /\ userTurns < MaxUserTurns
    /\ \E input \in InputTexts, health \in HealthOutcomes :
          IF IsExit(input)
          THEN /\ pc' = "exited"
               /\ UNCHANGED <<dbVars, messages, attempt, lastInputTokens,
                              containerId, userTurns, log, fault>>
          ELSE IF IsBlank(input)
          THEN UNCHANGED <<dbVars, agentVars>>
          ELSE /\ store' = SaveMessage(store, SessionId, "user", input)
               /\ sessions' = TouchSession(sessions, SessionId)
               /\ messages' = Append(messages, Msg("user", input))
               /\ log' = <<SaveMessageEvent("user", input)>>
               /\ userTurns' = userTurns + 1
               /\ attempt' = 0
               /\ containerId' = EnsuredContainer(containerId, health)
               /\ pc' = IF health = "failed" THEN "crashed" ELSE "chat"
               /\ fault' = [NoFault EXCEPT !.count = fault.count]
               /\ UNCHANGED lastInputTokens
    /\ UNCHANGED <<compactVars, storeVars, auxVars>>

\* chat() returns: the try block up to `break`
ChatReturns ==
    /\ pc = "chat"
    /\ \E response \in ResponseTexts, inputTokens \in TokenCounts,
          outcome \in AgentSummaryOutcomes, run \in ToolRunsIn(userTurns) :
          LET ret == [ok |-> TRUE, response |-> response, inputTokens |-> inputTokens]
              keep == KeepsResponse(response)
              store1 == IF keep THEN SaveMessage(store, SessionId, "assistant", response)
                        ELSE store
              local == LocalMsgs(messages, run)
              msgs0 == AfterChat(messages, local)
              msgs1 == IF keep THEN Append(msgs0, Msg("assistant", response))
                       ELSE msgs0
              log1 == Append(log, ToolChatEvent(messages, ret, local))
                      \o (IF keep THEN <<SaveMessageEvent("assistant", response)>> ELSE <<>>)
              call == ProactiveCall(ToCore(msgs1))
              r == CompactMessages(call.arg, call.keepLast, outcome)
          IN  /\ lastInputTokens' = inputTokens
              /\ sessions' = IF keep THEN TouchSession(sessions, SessionId) ELSE sessions
              /\ IF ShouldCompact(inputTokens)
                 THEN /\ store' = SaveCompactedMessages(store1, SessionId, r.result)
                      /\ messages' = WorkingList(r.result)
                      /\ log' = log1 \o <<CompactEvent(call, r), SaveCompactedEvent(r.result)>>
                 ELSE /\ store' = store1
                      /\ messages' = msgs1
                      /\ log' = log1
              /\ pc' = "ask"
    /\ UNCHANGED <<attempt, containerId, userTurns, fault, compactVars, storeVars, auxVars>>

\* the catch block of the retry loop, entered with `error` when the messages
\* table holds `rows`, the working list is `msgs` and the calls made so far
\* are `log1`
Catch(error, outcome, rows, msgs, log1) ==
    LET call == EmergencyCall(ToCore(msgs))
        r == CompactMessages(call.arg, call.keepLast, outcome)
    IN  IF RetriesAfter(error, attempt)
        THEN /\ store' = SaveCompactedMessages(rows, SessionId, r.result)
             /\ messages' = WorkingList(r.result)
             /\ log' = log1 \o <<CompactEvent(call, r), SaveCompactedEvent(r.result)>>
             /\ attempt' = attempt + 1
             /\ pc' = "chat"
        ELSE /\ store' = rows
             /\ messages' = Append(msgs, Msg("assistant", ErrorContent(error)))
             /\ log' = log1
             /\ pc' = "ask"
             /\ UNCHANGED attempt

\* chat() throws: the catch block
ChatThrows ==
    /\ pc = "chat"
    /\ \E error \in ChatErrors, outcome \in AgentSummaryOutcomes, run \in ToolRunsIn(userTurns) :
          LET local == LocalMsgs(messages, run)
          IN  Catch(error, outcome, store, AfterChat(messages, local),
                    Append(log, ToolChatEvent(messages, [ok |-> FALSE, error |-> error],
                                              local)))
    /\ UNCHANGED <<sessions, lastInputTokens, containerId, userTurns, fault,
                   compactVars, storeVars, auxVars>>

\* the process is started again with the same session id
Resume ==
    /\ pc \in {"exited", "crashed"}
    /\ \E saved \in LoadMessages(store, SessionId) :
          messages' = WorkingList(saved)
    /\ \E health \in HealthOutcomes \ {"failed"} :
          containerId' = EnsuredContainer(containerId, health)
    /\ pc' = "ask"
    /\ attempt' = 0
    /\ lastInputTokens' = 0
    /\ log' = <<>>
    /\ fault' = [NoFault EXCEPT !.count = fault.count]
    /\ UNCHANGED <<dbVars, userTurns, compactVars, storeVars, auxVars>>

Next == UserInput \/ ChatReturns \/ ChatThrows \/ Resume

Spec == Init /\ [][Next]_vars

----------------------------------------------------------------------------
(* Claims about the agent loop (checked under Spec)                        *)

ChatIdx == {i \in 1..Len(log) : log[i].call = "chat"}
FirstChat == CHOOSE i \in ChatIdx : \A j \in ChatIdx : i <= j
LastChat == CHOOSE i \in ChatIdx : \A j \in ChatIdx : j <= i
FailedWith(i, overflow) ==
    /\ ~log[i].ret.ok
    /\ IsContextOverflowError(log[i].ret.error) = overflow
Stored(turn) ==
    \E saved \in LoadMessages(store, SessionId) :
        \E i \in 1..Len(saved) : saved[i] = turn

OverflowThenSuccess ==
    /\ Cardinality(ChatIdx) = 2
    /\ FailedWith(FirstChat, TRUE)
    /\ log[LastChat].ret.ok

\* C1: overflow on the first attempt and success on the second: exactly one
\* emergency compaction (keepLast = 4) of the working list, persisted by the
\* only saveCompactedMessages call before the retry; the retry request is
\* the non-system compacted turns; a non-empty response is saved.
C1_OverflowThenSuccess ==
    OverflowThenSuccess =>
        LET a == FirstChat
            b == LastChat
            response == log[b].ret.response
        IN  /\ b = a + 3
            /\ log[a + 1].call = "compactMessages"
            /\ log[a + 1].keepLast = 4
            /\ log[a + 1].arg = log[a].arg
            /\ log[a + 2].call = "saveCompactedMessages"
            /\ log[a + 2].arg = log[a + 1].ret
            /\ Cardinality({i \in 1..Len(log) : log[i].call = "compactMessages"
                                                 /\ log[i].keepLast = 4}) = 1
            /\ Cardinality({i \in 1..b : log[i].call = "saveCompactedMessages"}) = 1
            /\ log[b].arg = SelectSeq(log[a + 1].ret, LAMBDA m : m.role # "system")
            /\ Len(log[b].arg) <= 5
            /\ Trim(response) # <<>> =>
                  /\ Len(log) > b
                  /\ log[b + 1].call = "saveMessage"
                  /\ log[b + 1].arg = <<Msg("assistant", response)>>
                  /\ Stored(Msg("assistant", response))

C1_Witness ==
    /\ OverflowThenSuccess
    /\ pc = "ask"
    /\ Len(log[FirstChat].arg) = 7
    /\ Len(log[LastChat].arg) = 5
    /\ StartsWith(log[LastChat].arg[1].content, SummaryPrefix(3))
    /\ Trim(log[LastChat].ret.response) # <<>>

\* C2: overflow on both attempts: there is no third attempt and an assistant
\* turn holding the error text is in the store.
C2_SecondOverflowPersisted ==
    /\ Cardinality(ChatIdx) <= 2
    /\ (/\ pc = "ask"
        /\ Cardinality(ChatIdx) = 2
        /\ FailedWith(FirstChat, TRUE)
        /\ FailedWith(LastChat, TRUE))
       => Stored(Msg("assistant", ErrorContent(log[LastChat].ret.error)))

\* C3: an error that is not overflow-classified: no retry, no compaction, no
\* saveCompactedMessages, and the error is stored as an assistant turn.
C3_OtherErrorPersisted ==
    (/\ pc = "ask"
     /\ Cardinality(ChatIdx) = 1
     /\ FailedWith(FirstChat, FALSE))
    => /\ \A i \in 1..Len(log) :
             log[i].call \notin {"compactMessages", "saveCompactedMessages"}
       /\ Stored(Msg("assistant", ErrorContent(log[FirstChat].ret.error)))

----------------------------------------------------------------------------
(* SpecFault: the agent loop with storage calls that throw                 *)

\* what a failing statement of the database throws
Fault(site, error) == [site |-> site, error |-> error, count |-> fault.count + 1]

StorageErrors ==
    {[hasMessage |-> TRUE,
      message |-> <<"d","a","t","a","b","a","s","e"," ","i","s"," ",
                    "l","o","c","k","e","d">>]}

\* saveMessage(currentSessionId, "user", input) throws: outside the try
\* block, the error leaves main()
UserSaveFails ==
    /\ pc = "ask"
    /\ fault.count < MaxFaults
    /\ userTurns < MaxUserTurns
    /\ \E input \in InputTexts, error \in StorageErrors, at \in SaveMessageSteps :
          /\ ~IsExit(input) /\ ~IsBlank(input)
          /\ store' = SaveMessageFails(store, SessionId, "user", input, at)
          /\ log' = <<SaveMessageEvent("user", input)>>
          /\ fault' = Fault("user", error)
    /\ userTurns' = userTurns + 1
    /\ pc' = "crashed"
    /\ UNCHANGED <<sessions, messages, attempt, lastInputTokens, containerId,
                   compactVars, storeVars, auxVars>>

\* chat() returns and saveMessage(currentSessionId, "assistant", response)
\* throws: inside the try block, the catch block receives the error
ResponseSaveFails ==
    /\ pc = "chat"
    /\ fault.count < MaxFaults
    /\ \E response \in ResponseTexts, inputTokens \in TokenCounts,
          error \in StorageErrors, at \in SaveMessageSteps,
          outcome \in AgentSummaryOutcomes :
          LET ret == [ok |-> TRUE, response |-> response, inputTokens |-> inputTokens]
          IN  /\ KeepsResponse(response)
              /\ Catch(error, outcome,
                       SaveMessageFails(store, SessionId, "assistant", response, at),
                       messages,
                       log \o <<ChatEvent(messages, ret),
                                SaveMessageEvent("assistant", response)>>)
              /\ lastInputTokens' = inputTokens
              /\ fault' = Fault("assistant", error)
    /\ UNCHANGED <<sessions, containerId, userTurns, compactVars, storeVars, auxVars>>

\* chat() returns, the response is handled, and the saveCompactedMessages of
\* the proactive compaction throws: inside the try block as well
ProactiveSaveFails ==
    /\ pc = "chat"
    /\ fault.count < MaxFaults
    /\ \E response \in ResponseTexts, inputTokens \in TokenCounts,
          error \in StorageErrors,
          outcome \in AgentSummaryOutcomes, again \in AgentSummaryOutcomes :
          LET ret == [ok |-> TRUE, response |-> response, inputTokens |-> inputTokens]
              keep == KeepsResponse(response)
              store1 == IF keep THEN SaveMessage(store, SessionId, "assistant", response)
                        ELSE store
              msgs1 == IF keep THEN Append(messages, Msg("assistant", response))
                       ELSE messages
              log1 == Append(log, ChatEvent(messages, ret))
                      \o (IF keep THEN <<SaveMessageEvent("assistant", response)>> ELSE <<>>)
              call == ProactiveCall(ToCore(msgs1))
              r == CompactMessages(call.arg, call.keepLast, outcome)
          IN  /\ ShouldCompact(inputTokens)
              /\ \E at \in 0..Len(r.result) :
                    Catch(error, again,
                          SaveCompactedFails(store1, SessionId, r.result, at),
                          msgs1,
                          log1 \o <<CompactEvent(call, r), SaveCompactedEvent(r.result)>>)
              /\ lastInputTokens' = inputTokens
              /\ sessions' = IF keep THEN TouchSession(sessions, SessionId) ELSE sessions
              /\ fault' = Fault("proactive", error)
    /\ UNCHANGED <<containerId, userTurns, compactVars, storeVars, auxVars>>

\* chat() throws an overflow error on the first attempt and the
\* saveCompactedMessages of the catch block throws: the error leaves main()
EmergencySaveFails ==
    /\ pc = "chat"
    /\ fault.count < MaxFaults
    /\ \E thrown \in ChatErrors, error \in StorageErrors,
          outcome \in AgentSummaryOutcomes :
          LET call == EmergencyCall(ToCore(messages))
              r == CompactMessages(call.arg, call.keepLast, outcome)
          IN  /\ RetriesAfter(thrown, attempt)
              /\ \E at \in 0..Len(r.result) :
                    store' = SaveCompactedFails(store, SessionId, r.result, at)
              /\ log' = log \o <<ChatEvent(messages, [ok |-> FALSE, error |-> thrown]),
                                 CompactEvent(call, r), SaveCompactedEvent(r.result)>>
              /\ fault' = Fault("emergency", error)
    /\ pc' = "crashed"
    /\ UNCHANGED <<sessions, messages, attempt, lastInputTokens, containerId,
                   userTurns, compactVars, storeVars, auxVars>>

NextFault ==
    \/ UserInput
    \/ ChatReturns
    \/ ChatThrows
    \/ Resume
    \/ UserSaveFails
    \/ ResponseSaveFails
    \/ ProactiveSaveFails
    \/ EmergencySaveFails

SpecFault == Init /\ [][NextFault]_vars

----------------------------------------------------------------------------
(* Claims about storage failures in the agent loop (checked under          *)
(* SpecFault)                                                              *)

\* C12: when saveMessage or saveCompactedMessages throws during a user turn,
\* the error leaves the agent loop: the failing call is the last call of the
\* turn (no emergency compaction, no retry of chat) and no assistant turn
\* holding the error text is appended to the working list.
C12_StorageFailurePropagates ==
    fault.site # "none" =>
        /\ pc = "crashed"
        /\ log[Len(log)].call \in {"saveMessage", "saveCompactedMessages"}
        /\ ~(/\ messages # <<>>
             /\ messages[Len(messages)] = Msg("assistant", ErrorContent(fault.error)))

----------------------------------------------------------------------------
(* Claims about the working list and the stored turns (checked under Spec) *)

\* C13: whenever main() waits for the next user input, the working list is
\* the list of non-system turns loadMessages returns for the session (same
\* roles, contents and order).
C13_WorkingListIsStored ==
    pc = "ask" =>
        \E saved \in LoadMessages(store, SessionId) : messages = WorkingList(saved)

----------------------------------------------------------------------------
(* Claims about the proactive compaction (checked under Spec)              *)

\* C21: after chat() has returned, compactMessages (keepLast = 6) is called
\* if and only if the input tokens of the last response exceed 150000; when
\* it is called, its result is handed to saveCompactedMessages, is what the
\* store then holds, and its non-system turns are the working list; when it
\* is not called, saveCompactedMessages is not called and the working list
\* is the request's list followed by the response that was kept.
C21_ProactiveCompactionIffOverThreshold ==
    (pc = "ask" /\ ChatIdx # {} /\ log[LastChat].ret.ok) =>
        LET b == LastChat
            ret == log[b].ret
            after == log[b].arg
                     \o (IF Trim(ret.response) # <<>>
                         THEN <<Msg("assistant", ret.response)>> ELSE <<>>)
            compactions == {i \in (b + 1)..Len(log) : log[i].call = "compactMessages"}
            replacements == {i \in (b + 1)..Len(log) :
                                log[i].call = "saveCompactedMessages"}
        IN  /\ compactions # {} <=> ret.inputTokens > 150000
            /\ compactions # {} =>
                  /\ Cardinality(compactions) = 1
                  /\ Cardinality(replacements) = 1
                  /\ \A i \in compactions :
                        /\ log[i].keepLast = 6
                        /\ log[i].arg = after
                        /\ i + 1 \in replacements
                        /\ log[i + 1].arg = log[i].ret
                        /\ LoadMessages(store, SessionId) = {log[i].ret}
                        /\ messages = SelectSeq(log[i].ret, LAMBDA m : m.role # "system")
            /\ compactions = {} =>
                  /\ replacements = {}
                  /\ messages = after

C21_Witness ==
    /\ pc = "ask" /\ ChatIdx # {} /\ log[LastChat].ret.ok
    /\ log[LastChat].ret.inputTokens = 150001
    /\ Len(log[LastChat].arg) = 7
    /\ Len(messages) = 7
    /\ StartsWith(messages[1].content, SummaryPrefix(2))
    /\ log[Len(log)].call = "saveCompactedMessages"

\* the tool-use and tool-result turns chat() built in the calls of the turn
ToolTurns ==
    UNION {{log[i].local[k] : k \in (Len(log[i].arg) + 1)..Len(log[i].local)} :
              i \in ChatIdx}

\* C28: every row of the messages table and every turn of the working list
\* is a text turn of role user or assistant; no system row is ever written;
\* the tool-use and tool-result turns chat() built are neither in the
\* working list nor, in any form, in the table.
C28_OnlyTextTurnsKept ==
    /\ \A i \in 1..Len(store) : store[i].role \in {"user", "assistant"}
    /\ \A i \in 1..Len(messages) :
          /\ IsTextTurn(messages[i])
          /\ messages[i].role \in {"user", "assistant"}
    /\ \A t \in ToolTurns :
          /\ ~IsTextTurn(t)
          /\ \A i \in 1..Len(store) : store[i].content # Stringify(t.blocks)
          /\ \A i \in 1..Len(messages) : messages[i].content # Stringify(t.blocks)

\* chat() ran a command and returned; the working list was compacted and
\* the table rewritten afterwards
C28_Witness ==
    /\ pc = "ask" /\ ChatIdx # {} /\ log[LastChat].ret.ok
    /\ Len(log[LastChat].local) = Len(log[LastChat].arg) + 2
    /\ log[Len(log)].call = "saveCompactedMessages"
    /\ Len(SessionRows(store, SessionId)) = Len(messages)
    /\ StartsWith(messages[1].content, SummaryPrefix(2))

----------------------------------------------------------------------------
(* SpecLive: the agent loop when every call of chat() comes back, with a   *)
(* result or with an error                                                 *)

\* `await chat(messages, containerId)` settles
ChatSettles == ChatReturns \/ ChatThrows

\* a new session
InitLive == StartedWith({0})

SpecLive == InitLive /\ [][Next]_vars /\ WF_vars(ChatSettles)

\* C24: a user turn runs chat() at most twice, and a turn waiting for
\* chat() eventually comes back to the prompt for the next input, whether
\* chat() returns, overflows or fails otherwise and whether or not a
\* compaction is made.
C24_TurnFinishesWithinTwoRuns ==
    /\ [](Cardinality(ChatIdx) <= 2)
    /\ [](pc = "chat" => attempt \in {0, 1} /\ Cardinality(ChatIdx) = attempt)
    /\ (pc = "chat") ~> (pc = "ask")

\* a turn that overflowed, was compacted, failed again and is done
C24_Witness ==
    /\ pc = "ask"
    /\ Cardinality(ChatIdx) = 2
    /\ FailedWith(FirstChat, TRUE)
    /\ FailedWith(LastChat, TRUE)
    /\ attempt = 1

----------------------------------------------------------------------------
(* SpecChat: one call of chat(messages, containerId), one request of the   *)
(* inner loop at a time                                                    *)

\* ---- responses the model can give ----
ChatContents ==
    {<<ChatText(<<"a">>)>>,
     <<ToolUse("t1", "deploy")>>,
     <<ChatText(<<"a">>), ToolUse("t1", "readFile")>>,
     <<ToolUse("t1", "executeCommand"), ToolUse("t2", "executeCommand")>>}

StopReasons == {"end_turn", "tool_use"}

Usages == {[input_tokens |-> 9, output_tokens |-> 2]}

\* one outcome per block: of the command for executeCommand, of the file
\* operation for a file tool; the other blocks are given "ok"
OutcomesFor(content) ==
    {o \in [1..Len(content) -> ExecOutcomes] :
        \A i \in 1..Len(content) :
            IF IsToolUse(content[i]) /\ content[i].name = "executeCommand" THEN TRUE
            ELSE IF IsToolUse(content[i]) /\ content[i].name \in FileTools
            THEN o[i] \in FileOutcomes
            ELSE o[i] = "ok"}

\* chat(messages, containerId) is entered
InitChat ==
    /\ IdleDb /\ IdleAgent /\ IdleCompact /\ IdleStore /\ IdleSerial /\ IdleDocker
    /\ IdleFn
    /\ chatPc = "request"
    /\ currentMsgs = History(2) \o <<Msg("user", <<"h","i">>)>>
    /\ chatContainerId \in ContainerIds
    /\ fullResponse = <<>>
    /\ totalInput = 0
    /\ totalOutput = 0
    /\ requests = <<>>
    /\ responses = <<>>
    /\ execs = <<>>

\* one iteration of the while loop: the request, the for loop over the
\* blocks of the response, the break or the two pushes
ChatIteration ==
    /\ chatPc = "request"
    /\ Len(requests) < MaxRequests
    /\ \E content \in ChatContents, stop_reason \in StopReasons, usage \in Usages :
          \E outcomes \in OutcomesFor(content) :
              /\ requests' = Append(requests, currentMsgs)
              /\ responses' = Append(responses,
                                     [content |-> content, stop_reason |-> stop_reason,
                                      outcomes |-> outcomes,
                                      toolResults |-> ToolResults(content, outcomes)])
              /\ totalInput' = usage.input_tokens
              /\ totalOutput' = totalOutput + usage.output_tokens
              /\ fullResponse' = fullResponse \o ResponseText(content)
              /\ execs' = execs \o ExecCalls(content, outcomes, chatContainerId)
              /\ IF LoopsAgain(content, stop_reason)
                 THEN /\ currentMsgs' = NextMsgs(currentMsgs, content, outcomes)
                      /\ chatPc' = "request"
                 ELSE /\ chatPc' = "returned"
                      /\ UNCHANGED currentMsgs
    /\ UNCHANGED <<chatContainerId, dbVars, agentVars, compactVars, storeVars, serialVars,
                   dockerVars, fnVars>>

\* client.messages.create throws: chat() throws
ChatRequestThrows ==
    /\ chatPc = "request"
    /\ Len(requests) < MaxRequests
    /\ requests' = Append(requests, currentMsgs)
    /\ chatPc' = "thrown"
    /\ UNCHANGED <<currentMsgs, fullResponse, totalInput, totalOutput, chatContainerId,
                   responses, execs, dbVars, agentVars, compactVars, storeVars,
                   serialVars, dockerVars, fnVars>>

NextChat == ChatIteration \/ ChatRequestThrows

SpecChat == InitChat /\ [][NextChat]_vars

----------------------------------------------------------------------------
(* Claims about chat() (checked under SpecChat)                            *)

\* C14: once an executeCommand invocation has reported that the container
\* crashed or was removed, every later command of the same chat() call runs
\* against another container id than the one that crashed.
C14_LaterCommandsUseNewContainer ==
    \A i, j \in 1..Len(execs) :
        (i < j /\ execs[i].outcome = "crashed")
        => execs[j].container # execs[i].container

\* C20: after a response is processed another request is sent if and only
\* if the response held a tool_use block and its stop_reason is not
\* "end_turn"; the next request's messages are the previous request's
\* followed by an assistant turn with the response's content blocks and one
\* user turn with a tool result for every tool_use block, in block order.
C20_LoopsWhileToolsAreUsed ==
    \A i \in 1..Len(responses) :
        LET res == responses[i]
            uses == SelectSeq(res.content, LAMBDA b : b.type = "tool_use")
            more == uses # <<>> /\ res.stop_reason # "end_turn"
            sentAgain == \/ i < Len(requests)
                         \/ i = Len(requests) /\ chatPc = "request"
        IN  /\ sentAgain <=> more
            /\ i < Len(requests) =>
                  LET next == requests[i + 1]
                      n == Len(requests[i])
                  IN  /\ Len(next) = n + 2
                      /\ SubSeq(next, 1, n) = requests[i]
                      /\ next[n + 1] = BlockMsg("assistant", res.content)
                      /\ next[n + 2].role = "user"
                      /\ Len(next[n + 2].blocks) = Len(uses)
                      /\ \A k \in 1..Len(uses) :
                            /\ next[n + 2].blocks[k].type = "tool_result"
                            /\ next[n + 2].blocks[k].tool_use_id = uses[k].id
                            /\ next[n + 2].blocks[k] = res.toolResults[k]

C20_Witness ==
    /\ chatPc = "returned"
    /\ Len(requests) = 3
    /\ Len(responses[1].toolResults) = 2
    /\ responses[2].stop_reason = "tool_use"
    /\ responses[3].stop_reason = "end_turn"
    /\ \E k \in 1..Len(responses[3].content) : responses[3].content[k].type = "tool_use"

\* position among the tool results of the result of block j of a content
ResultIndex(content, j) == Cardinality({m \in 1..j : IsToolUse(content[m])})

\* executeTool never throws, whatever the tool does: chat() throws only when
\* a request throws; every tool_use block gets a payload in the tool results:
\* success=false with the error message when a file operation throws or
\* execInContainer throws, success=true with the stderr of execInContainer
\* when it returns, an error payload without success for an unknown tool
\* name; and when the loop goes on (tool use, stop_reason not end_turn) the
\* payloads are the last turn of the next request.
ThrownToolErrorIsReported ==
    /\ chatPc = "thrown" => Len(requests) = Len(responses) + 1
    /\ chatPc # "thrown" => Len(requests) = Len(responses)
    /\ \A i \in 1..Len(responses) :
          LET res == responses[i]
              more == HasToolUse(res.content) /\ res.stop_reason # "end_turn"
              sent == IF i < Len(requests) THEN requests[i + 1]
                      ELSE IF chatPc = "request" THEN currentMsgs ELSE <<>>
          IN  /\ more => /\ sent # <<>>
                         /\ sent[Len(sent)].role = "user"
                         /\ sent[Len(sent)].blocks = res.toolResults
              /\ \A j \in 1..Len(res.content) :
                    IsToolUse(res.content[j]) =>
                        LET k == ResultIndex(res.content, j)
                            name == res.content[j].name
                            payload == res.toolResults[k].content
                        IN  /\ k <= Len(res.toolResults)
                            /\ res.toolResults[k].tool_use_id = res.content[j].id
                            /\ (name \in FileTools /\ res.outcomes[j] = "failed")
                               => payload.success = "false" /\ payload.error = FileErrorText
                            /\ (name = "executeCommand" /\ res.outcomes[j] = "crashed")
                               => /\ payload.success = "false"
                                  /\ payload.error = ContainerCrashedText
                            /\ (name = "executeCommand"
                                /\ res.outcomes[j] \in {"failed", "gone"})
                               => /\ payload.success = "true"
                                  /\ payload.stderr = CommandFailedText
                            /\ name \notin FileTools \cup {"executeCommand"}
                               => /\ payload.success = "absent"
                                  /\ payload.error = UnknownToolText

\* a command whose container is lost, an unknown tool and a failing file
\* tool in three responses of one call, and the loop asks again each time
ThrownToolErrorWitness ==
    /\ chatPc = "request"
    /\ Len(responses) = 3
    /\ Len(responses[1].content) = 2
    /\ Len(responses[2].content) = 1
    /\ Len(responses[3].content) = 2
    /\ responses[1].content[1].name = "executeCommand"
    /\ responses[1].outcomes[1] = "crashed"
    /\ responses[2].content[1].name = "deploy"
    /\ responses[3].content[2].name = "readFile"
    /\ responses[3].outcomes[2] = "failed"
    /\ currentMsgs[Len(currentMsgs)].blocks[1].content.success = "false"
    /\ currentMsgs[Len(currentMsgs) - 2].blocks[1].content.error = UnknownToolText
    /\ currentMsgs[Len(currentMsgs) - 4].blocks[1].content.error = ContainerCrashedText

\* C23: executeTool never throws: chat() throws only when a request throws;
\* every tool_use block gets a payload in the tool results; a file tool
\* whose operation fails and a command that fails (it exits with an error in
\* a running container, its container is gone, or docker does not answer)
\* yield success=false with the error message; an unknown tool name yields
\* an error payload; and when the loop goes on (tool use, stop_reason not
\* end_turn) the payloads are the last turn of the next request.
C23_ToolFailureIsReported ==
    /\ chatPc = "thrown" => Len(requests) = Len(responses) + 1
    /\ chatPc # "thrown" => Len(requests) = Len(responses)
    /\ \A i \in 1..Len(responses) :
          LET res == responses[i]
              more == HasToolUse(res.content) /\ res.stop_reason # "end_turn"
              sent == IF i < Len(requests) THEN requests[i + 1]
                      ELSE IF chatPc = "request" THEN currentMsgs ELSE <<>>
          IN  /\ more => /\ sent # <<>>
                         /\ sent[Len(sent)].role = "user"
                         /\ sent[Len(sent)].blocks = res.toolResults
              /\ \A j \in 1..Len(res.content) :
                    IsToolUse(res.content[j]) =>
                        LET k == ResultIndex(res.content, j)
                            name == res.content[j].name
                            payload == res.toolResults[k].content
                        IN  /\ k <= Len(res.toolResults)
                            /\ res.toolResults[k].tool_use_id = res.content[j].id
                            /\ (name \in FileTools /\ res.outcomes[j] # "ok")
                               => payload.success = "false" /\ payload.error = FileErrorText
                            /\ (name = "executeCommand" /\ CommandFails(res.outcomes[j]))
                               => /\ payload.success = "false"
                                  /\ payload.error \in {CommandFailedText,
                                                        ContainerCrashedText}
                            /\ name \notin FileTools \cup {"executeCommand"}
                               => /\ payload.error = UnknownToolText

\* C26: execInContainer throws "Container crashed or was removed" whenever
\* the command fails and the container is no longer running, and returns
\* a result whose stderr carries the failure text only when the command
\* fails while the container is running.
C26_GoneContainerIsReported ==
    \A i \in 1..Len(execs) :
        LET outcome == execs[i].outcome
            result == execs[i].result
        IN  /\ (CommandFails(outcome) /\ ~StillRunning(outcome))
               => result.thrown /\ result.message = ContainerCrashedText
            /\ (CommandFails(outcome) /\ ~result.thrown)
               => StillRunning(outcome) /\ result.stderr = CommandFailedText

----------------------------------------------------------------------------
(* SpecDocker: calls of ensureDockerContainer, one awaited command or      *)
(* statement at a time, by processes that share the docker host and the    *)
(* database; the one container named CONTAINER_NAME may be running,        *)
(* stopped or absent and may exit or be removed at any moment; docker      *)
(* commands and database statements may fail                               *)

\* the processes that call ensureDockerContainer
DockerCallers == {"p1", "p2"}

\* the session a process was started with: the first one works on
\* SessionId, the other one on the same session or on another one
SessionsOf(p) == IF p = "p1" THEN {SessionId} ELSE {SessionId, OtherSession}

\* the {{.Status}} column of docker ps -a
StatusText(status) ==
    IF status = "running" THEN <<"U","p"," ","2"," ","h","o","u","r","s">>
    ELSE <<"E","x","i","t","e","d"," ","(","0",")">>

\* status.includes("Up")
IsUp(status) == Includes(StatusText(status), <<"U","p">>)

\* mutant: the listing is taken to be empty
Found_Never(psWorks, c) == FALSE

\* docker ps -a did not throw and stdout.trim() is not empty
Found(psWorks, c) == psWorks /\ c.status # "none"

\* db.select().from(dockerContainers).where(eq(sessionId)).limit(1)
ContainerRows(recs, sid) ==
    LET rows == SelectSeq(recs, LAMBDA r : r.sessionId = sid)
    IN  IF rows = <<>> THEN <<>> ELSE <<Head(rows)>>

\* every row docker_containers holds for a session
SessionContainers(recs, sid) == SelectSeq(recs, LAMBDA r : r.sessionId = sid)

\* a call that has not begun.  pc: the statement awaited next; site: 1 in
\* the inner try, 2 in the outer try after it, 3 in the outer catch;
\* containerId: the id read from docker ps or docker run; clean: no
\* command or statement of the call has failed of itself, no other call
\* was in progress and the container did not change by itself during the
\* call
IdleCall ==
    [pc |-> "idle", session |-> "", site |-> 0, containerId |-> 0, commands |-> <<>>,
     before |-> NoContainer, foundUp |-> FALSE, clean |-> TRUE, ret |-> 0]

\* what a statement leaves: the locals of the call, the container, the
\* rows, the id of the next container
After(local, c, recs, next) ==
    [local |-> local, container |-> c, records |-> recs, nextId |-> next]

\* a statement throws: the inner catch falls through to docker run, the
\* outer catch goes to docker rm -f, the catch of the outer catch throws
\* "Failed to create Docker container"
Throws(local) ==
    IF local.site = 1 THEN [local EXCEPT !.pc = "run", !.site = 2]
    ELSE IF local.site = 2 THEN [local EXCEPT !.pc = "rm", !.site = 3]
    ELSE [local EXCEPT !.pc = "raised"]

\* `return containerId` / `return trimmedId`
Returns(local) == [local EXCEPT !.pc = "returned", !.ret = local.containerId]

\* await execAsync(`docker ps -a --filter name=... --format "{{.ID}} {{.Status}}"`)
\* and the two tests on its output
PsStep(local, c, recs, next, works) ==
    LET l1 == [local EXCEPT !.commands = Append(@, "ps"), !.clean = @ /\ works]
    IN  IF ~works THEN After(Throws(l1), c, recs, next)
        ELSE IF ~Found(works, c)
        THEN After([l1 EXCEPT !.pc = "run", !.site = 2], c, recs, next)
        ELSE IF IsUp(c.status)
        THEN After([l1 EXCEPT !.pc = "select", !.containerId = c.id, !.foundUp = TRUE],
                   c, recs, next)
        ELSE After([l1 EXCEPT !.pc = "start", !.containerId = c.id], c, recs, next)

\* await execAsync(`docker start ${containerId}`): fails when the container
\* of that id is gone
StartStep(local, c, recs, next, works) ==
    LET l1 == [local EXCEPT !.commands = Append(@, "start"), !.clean = @ /\ works]
    IN  IF works /\ c.status # "none" /\ c.id = local.containerId
        THEN After([l1 EXCEPT !.pc = "select"], [c EXCEPT !.status = "running"], recs, next)
        ELSE After(Throws(l1), c, recs, next)

\* mutant: the row is inserted whether or not the select found one
SelectStep_AlwaysInserts(local, c, recs, next, works) ==
    IF ~works THEN After(Throws([local EXCEPT !.clean = FALSE]), c, recs, next)
    ELSE After([local EXCEPT !.pc = "insert"], c, recs, next)

\* saveContainerInfo: the awaited select and `if (existing.length === 0)`
SelectStep(local, c, recs, next, works) ==
    LET l1 == [local EXCEPT !.clean = @ /\ works]
    IN  IF ~works THEN After(Throws(l1), c, recs, next)
        ELSE IF Len(ContainerRows(recs, local.session)) = 0
        THEN After([l1 EXCEPT !.pc = "insert"], c, recs, next)
        ELSE After(Returns(l1), c, recs, next)

\* saveContainerInfo: the awaited insert, then the return of the caller
InsertStep(local, c, recs, next, works) ==
    LET l1 == [local EXCEPT !.clean = @ /\ works]
    IN  IF ~works THEN After(Throws(l1), c, recs, next)
        ELSE After(Returns(l1), c,
                   Append(recs, [sessionId |-> local.session,
                                 containerId |-> local.containerId]),
                   next)

\* await execAsync(`docker run -d --name ${CONTAINER_NAME} ...`), in the
\* outer try and in the outer catch: fails when a container of that name
\* exists
RunStep(local, c, recs, next, works) ==
    LET l1 == [local EXCEPT !.commands = Append(@, "run"), !.clean = @ /\ works]
    IN  IF works /\ c.status = "none"
        THEN After([l1 EXCEPT !.pc = "select", !.containerId = next],
                   [id |-> next, status |-> "running"], recs, next + 1)
        ELSE After(Throws(l1), c, recs, next)

\* await execAsync(`docker rm -f ${CONTAINER_NAME} 2>/dev/null || true`):
\* never throws; when docker rm fails the container stays
RmStep(local, c, recs, next, works) ==
    LET l1 == [local EXCEPT !.commands = Append(@, "rm"), !.clean = @ /\ works,
                            !.pc = "run"]
    IN  IF works THEN After(l1, NoContainer, recs, next)
        ELSE After(l1, c, recs, next)

\* the statement a call awaits at pc
Statement(local, c, recs, next, works) ==
    CASE local.pc = "ps" -> PsStep(local, c, recs, next, works)
      [] local.pc = "start" -> StartStep(local, c, recs, next, works)
      [] local.pc = "select" -> SelectStep(local, c, recs, next, works)
      [] local.pc = "insert" -> InsertStep(local, c, recs, next, works)
      [] local.pc = "run" -> RunStep(local, c, recs, next, works)
      [] local.pc = "rm" -> RmStep(local, c, recs, next, works)

\* what dLast records of a call that has returned or thrown
Completion(local) ==
    [op |-> "ensure", session |-> local.session, clean |-> local.clean,
     foundUp |-> local.foundUp, before |-> local.before,
     ret |-> local.ret, raised |-> local.pc = "raised",
     commands |-> local.commands]

\* what dPrev keeps of the event before the last one: a call that ran alone
\* with every command and statement working, or that there was another event
Earlier(event) ==
    IF event.op = "ensure" /\ event.clean THEN event
    ELSE [NoEnsure EXCEPT !.op = IF event.op = "none" THEN "none" ELSE "other"]

InProgress(p) == dProc[p].pc # "idle"

\* the calls in progress see the container change by itself
Disturbed == [p \in DockerCallers |->
                 IF InProgress(p) THEN [dProc[p] EXCEPT !.clean = FALSE] ELSE dProc[p]]

InitDocker ==
    /\ IdleDb /\ IdleAgent /\ IdleCompact /\ IdleStore /\ IdleSerial /\ IdleChat
    /\ IdleFn
    /\ dContainer \in {NoContainer, [id |-> 1, status |-> "running"],
                        [id |-> 1, status |-> "exited"]}
    /\ dRecords \in {<<>>, <<[sessionId |-> SessionId, containerId |-> 1]>>}
    /\ dNextId = 2
    /\ dProc = [p \in DockerCallers |-> IdleCall]
    /\ dLast = NoEnsure
    /\ dPrev = NoEnsure
    /\ dCalls = 0
    /\ dFaults = 0 /\ dOverlapped = {}

\* a process calls ensureDockerContainer(sessionId)
EnsureBegin(p) ==
    /\ ~InProgress(p)
    /\ dCalls < MaxEnsures
    /\ \E sid \in SessionsOf(p) :
          LET others == \E q \in DockerCallers : q # p /\ InProgress(q)
          IN  /\ dProc' = [Disturbed EXCEPT
                              ![p] = [IdleCall EXCEPT !.pc = "ps", !.site = 1,
                                                      !.session = sid,
                                                      !.before = dContainer,
                                                      !.clean = ~others]]
             /\ dOverlapped' =
                    IF \E q \in DockerCallers :
                          q # p /\ InProgress(q) /\ dProc[q].session = sid
                    THEN dOverlapped \cup {sid} ELSE dOverlapped
    /\ dCalls' = dCalls + 1
    /\ UNCHANGED <<dContainer, dRecords, dNextId, dLast, dPrev, dFaults, dbVars,
                   agentVars, compactVars, storeVars, serialVars, chatVars, fnVars>>

\* the statement a call awaits settles: it works or it fails
EnsureStep(p) ==
    /\ InProgress(p)
    /\ \E works \in (IF dFaults < MaxDockerFaults THEN BOOLEAN ELSE {TRUE}) :
          LET r == Statement(dProc[p], dContainer, dRecords, dNextId, works)
          IN  /\ dFaults' = IF works THEN dFaults ELSE dFaults + 1
              /\ dContainer' = r.container
              /\ dRecords' = r.records
              /\ dNextId' = r.nextId
              /\ IF r.local.pc \in {"returned", "raised"}
                 THEN /\ dProc' = [dProc EXCEPT ![p] = IdleCall]
                      /\ dLast' = Completion(r.local)
                      /\ dPrev' = Earlier(dLast)
                 ELSE /\ dProc' = [dProc EXCEPT ![p] = r.local]
                      /\ UNCHANGED <<dLast, dPrev>>
    /\ UNCHANGED <<dCalls, dOverlapped, dbVars, agentVars, compactVars, storeVars,
                   serialVars, chatVars, fnVars>>

\* the running container exits
ContainerExits ==
    /\ dContainer.status = "running"
    /\ dFaults < MaxDockerFaults
    /\ dFaults' = dFaults + 1
    /\ dContainer' = [dContainer EXCEPT !.status = "exited"]
    /\ dProc' = Disturbed
    /\ dLast' = [NoEnsure EXCEPT !.op = "exits"]
    /\ dPrev' = Earlier(dLast)
    /\ UNCHANGED <<dRecords, dNextId, dCalls, dOverlapped, dbVars, agentVars, compactVars,
                   storeVars, serialVars, chatVars, fnVars>>

\* the container is removed
ContainerRemoved ==
    /\ dContainer.status # "none"
    /\ dFaults < MaxDockerFaults
    /\ dFaults' = dFaults + 1
    /\ dContainer' = NoContainer
    /\ dProc' = Disturbed
    /\ dLast' = [NoEnsure EXCEPT !.op = "removed"]
    /\ dPrev' = Earlier(dLast)
    /\ UNCHANGED <<dRecords, dNextId, dCalls, dOverlapped, dbVars, agentVars, compactVars,
                   storeVars, serialVars, chatVars, fnVars>>

NextDocker ==
    \/ \E p \in DockerCallers : EnsureBegin(p)
    \/ \E p \in DockerCallers : EnsureStep(p)
    \/ ContainerExits
    \/ ContainerRemoved

SpecDocker == InitDocker /\ [][NextDocker]_vars

----------------------------------------------------------------------------
(* Claims about ensureDockerContainer (checked under SpecDocker)           *)

\* C15: after ensureDockerContainer(session) has returned h, the session's
\* row of docker_containers holds h.
C15_RecordHoldsReturnedHandle ==
    (dLast.op = "ensure" /\ ~dLast.raised) =>
        LET rows == SessionContainers(dRecords, dLast.session)
        IN  /\ rows # <<>>
            /\ \A i \in 1..Len(rows) : rows[i].containerId = dLast.ret

\* C16: two calls in a row for a session whose container is running, docker
\* and the database working and nothing else touching the container: both
\* return the same container id and neither issues docker run.
C16_EnsureTwiceSameContainer ==
    (/\ dPrev.op = "ensure" /\ dLast.op = "ensure"
     /\ dPrev.session = dLast.session
     /\ dPrev.before.status = "running"
     /\ dPrev.clean /\ dLast.clean)
    => /\ ~dPrev.raised /\ ~dLast.raised
       /\ dPrev.ret = dLast.ret
       /\ dLast.ret = dPrev.before.id
       /\ \A i \in 1..Len(dPrev.commands) : dPrev.commands[i] # "run"
       /\ \A i \in 1..Len(dLast.commands) : dLast.commands[i] # "run"

C16_Witness ==
    /\ dPrev.op = "ensure" /\ dLast.op = "ensure"
    /\ dPrev.session = SessionId /\ dLast.session = SessionId
    /\ dPrev.before.status = "running"
    /\ dPrev.clean /\ dLast.clean
    /\ dLast.ret = 1
    /\ dContainer = [id |-> 1, status |-> "running"]

\* C25: docker_containers never holds more than one row for a session
\* whose calls of ensureDockerContainer came one after another, whatever
\* those calls found and did (container running, stopped or absent,
\* creation failing and retried) and whatever calls for other sessions ran
\* beside them.
C25_OneRecordPerSession ==
    \A sid \in {SessionId, OtherSession} :
        sid \notin dOverlapped => Len(SessionContainers(dRecords, sid)) <= 1

\* two calls in a row for a session without a row: the first one inserts
\* it, the second one removes the container and creates it again, and the
\* session still has one row
C25_Witness ==
    /\ dPrev.op = "ensure" /\ dLast.op = "ensure"
    /\ dPrev.session = SessionId /\ dLast.session = SessionId
    /\ SessionId \notin dOverlapped
    /\ dLast.commands = <<"ps", "run", "rm", "run">>
    /\ ~dLast.raised
    /\ dRecords = <<[sessionId |-> SessionId, containerId |-> dPrev.ret]>>
    /\ dLast.ret # dPrev.ret

\* C17: in one call, docker rm -f is issued only after a creation attempt
\* and is followed by exactly one more creation attempt; the call raises
\* only after that second attempt; there are never more than two creation
\* attempts; and a container that docker ps listed as running is never
\* force-removed.
C17_RemoveAndRetryOnce ==
    dLast.op = "ensure" =>
        LET cmds == dLast.commands
            n == Len(cmds)
            runs == {i \in 1..n : cmds[i] = "run"}
            rms == {i \in 1..n : cmds[i] = "rm"}
        IN  /\ Cardinality(runs) <= 2
            /\ Cardinality(rms) <= 1
            /\ \A i \in rms : i > 1 /\ cmds[i - 1] = "run" /\ i + 1 = n /\ cmds[n] = "run"
            /\ dLast.raised => Cardinality(runs) = 2 /\ rms # {}
            /\ dLast.foundUp => rms = {}

----------------------------------------------------------------------------
(* SpecEstimate: estimateTokens and shouldCompact(messages) of the         *)
(* estimate-based compaction check, applied to two turn lists              *)

CONTEXT_LIMIT_TOKENS == 150000
CharsPerToken == 4

\* a turn whose content is a string of `length` UTF-16 units
Sized(r, length) == [role |-> r, length |-> length]

\* messages.reduce((sum, msg) => sum + content.length, 0)
RECURSIVE TotalChars(_)
TotalChars(msgs) ==
    IF msgs = <<>> THEN 0 ELSE Head(msgs).length + TotalChars(Tail(msgs))

\* mutant: the product is rounded down
EstimateTokens_RoundsDown(msgs) == TotalChars(msgs) \div CharsPerToken

\* estimateTokens(messages): Math.ceil(totalChars * ESTIMATED_TOKENS_PER_CHAR);
\* the product with 0.25 is exact in double precision
EstimateTokens(msgs) ==
    LET totalChars == TotalChars(msgs)
    IN  (totalChars \div CharsPerToken)
        + (IF totalChars % CharsPerToken = 0 THEN 0 ELSE 1)

\* shouldCompact(messages)
ShouldCompactMessages(msgs) == EstimateTokens(msgs) > CONTEXT_LIMIT_TOKENS

\* content lengths around a token boundary and around the limit
ContentLengths == {0, 1, 4, 5, 599996, 600000}

SizedTurns == {Sized(r, n) : r \in {"user"}, n \in ContentLengths}

InitEstimate ==
    /\ IdleDb /\ IdleAgent /\ IdleCompact /\ IdleStore /\ IdleSerial /\ IdleChat
    /\ IdleDocker
    /\ ePhase = "input"
    /\ eA \in SeqsUpTo(SizedTurns, MaxEstTurns)
    /\ eB \in SeqsUpTo(SizedTurns, MaxEstTurns)
    /\ eOut = NoEstimate

EstimateCall ==
    /\ ePhase = "input"
    /\ ePhase' = "returned"
    /\ eOut' = [estimateA |-> EstimateTokens(eA), estimateB |-> EstimateTokens(eB),
                shouldA |-> ShouldCompactMessages(eA),
                shouldB |-> ShouldCompactMessages(eB)]
    /\ UNCHANGED <<eA, eB, dbVars, agentVars, compactVars, storeVars, serialVars,
                   chatVars, dockerVars>>

NextEstimate == EstimateCall

SpecEstimate == InitEstimate /\ [][NextEstimate]_vars

----------------------------------------------------------------------------
(* Claims about the token estimate (checked under SpecEstimate)            *)

\* C22: the estimate of a turn list is its total content length divided by 4
\* and rounded up; a list with at least as many characters has at least as
\* large an estimate; shouldCompact is true exactly when the estimate is
\* greater than 150000: 600001 characters compact, 600000 do not.
C22_EstimateIsCeilingOfQuarter ==
    ePhase = "returned" =>
        LET ta == TotalChars(eA)
            tb == TotalChars(eB)
        IN  /\ 4 * eOut.estimateA >= ta /\ 4 * (eOut.estimateA - 1) < ta
            /\ 4 * eOut.estimateB >= tb /\ 4 * (eOut.estimateB - 1) < tb
            /\ ta <= tb => eOut.estimateA <= eOut.estimateB
            /\ eOut.shouldA <=> eOut.estimateA > 150000
            /\ eOut.shouldB <=> eOut.estimateB > 150000
            /\ ta = 600001 => eOut.shouldA
            /\ ta = 600000 => ~eOut.shouldA

C22_Witness ==
    /\ ePhase = "returned"
    /\ TotalChars(eA) = 600001
    /\ TotalChars(eB) = 600000
    /\ eOut.shouldA /\ ~eOut.shouldB
    /\ eOut.estimateA = 150001 /\ eOut.estimateB = 150000

----------------------------------------------------------------------------
(* SpecV1: the agent loop of src/unnamed/part_001, whose main() is started  *)
(* when the file is loaded.  It asks shouldCompact(messages) of             *)
(* src/unnamed/part_002 before each request and compacts with the           *)
(* compactMessages(messages) of that file; its try block holds the request  *)
(* loop itself and its catch block stores the error as an assistant turn;   *)
(* there is no second attempt and no compaction after a response.  V1       *)
(* marks the definitions of these two files.                                *)

RecentCount == 10

HistoryV1 == 12      \* saved turns a run of the loop of part_001 resumes

\* 600000 letters x held as one element of a text, as many characters as
\* four times CONTEXT_LIMIT_TOKENS; being lower-case letters they are no
\* white space and toLowerCase leaves them as they are
Filler ==
    LET x10 == "xxxxxxxxxx"
        x100 == x10 \o x10 \o x10 \o x10 \o x10 \o x10 \o x10 \o x10 \o x10 \o x10
        x1000 == x100 \o x100 \o x100 \o x100 \o x100
                 \o x100 \o x100 \o x100 \o x100 \o x100
        x10000 == x1000 \o x1000 \o x1000 \o x1000 \o x1000
                  \o x1000 \o x1000 \o x1000 \o x1000 \o x1000
        x100000 == x10000 \o x10000 \o x10000 \o x10000 \o x10000
                   \o x10000 \o x10000 \o x10000 \o x10000 \o x10000
    IN  x100000 \o x100000 \o x100000 \o x100000 \o x100000 \o x100000

\* content.length: the characters of every element of the text
RECURSIVE ContentLength(_)
ContentLength(text) ==
    IF text = <<>> THEN 0 ELSE Len(Head(text)) + ContentLength(Tail(text))

\* the turns as estimateTokens reads them: role and content.length
SizedOf(msgs) ==
    [i \in 1..Len(msgs) |-> Sized(msgs[i].role, ContentLength(msgs[i].content))]

\* ---- compactMessages(messages) of part_002 ----

\* `${m.role}`
RoleText(r) ==
    CASE r = "user" -> <<"u","s","e","r">>
      [] r = "assistant" -> <<"a","s","s","i","s","t","a","n","t">>
      [] r = "system" -> <<"s","y","s","t","e","m">>

\* messages.find(m => m.role === "user"): its position, 0 when there is none
FirstUserIndex(msgs) ==
    IF \E i \in 1..Len(msgs) : msgs[i].role = "user"
    THEN CHOOSE i \in 1..Len(msgs) :
            /\ msgs[i].role = "user"
            /\ \A j \in 1..(i - 1) : msgs[j].role # "user"
    ELSE 0

\* messages.slice(-10)
RecentMsgsV1(msgs) == JsSlice(msgs, -RecentCount, Len(msgs))

\* the positions of the turns of messages.slice(-10)
RecentIndices(msgs) == (Max(Len(msgs) - RecentCount, 0) + 1)..Len(msgs)

\* messages.filter(m => m.role !== "system" && m !== firstUserMessage
\*                      && !recentMessages.includes(m)), from position i on;
\* the turns are distinct objects, compared by identity
RECURSIVE MessagesToSummarizeFrom(_, _)
MessagesToSummarizeFrom(msgs, i) ==
    IF i > Len(msgs) THEN <<>>
    ELSE (IF /\ msgs[i].role # "system"
             /\ i # FirstUserIndex(msgs)
             /\ i \notin RecentIndices(msgs)
          THEN <<msgs[i]>> ELSE <<>>)
         \o MessagesToSummarizeFrom(msgs, i + 1)

MessagesToSummarize(msgs) == MessagesToSummarizeFrom(msgs, 1)

\* messagesToSummarize.map(m => `${m.role}: ${m.content}`).join("\n\n")
RECURSIVE ConversationText(_)
ConversationText(list) ==
    IF list = <<>> THEN <<>>
    ELSE RoleText(list[1].role) \o <<":", " ">> \o list[1].content
         \o (IF Len(list) = 1 THEN <<>>
             ELSE <<"\n", "\n">> \o ConversationText(Tail(list)))

SummaryPromptHead ==
    "Please provide a concise summary of the following conversation history, preserving all important decisions, code changes, and context that would be needed to continue the work:\n\n"

SummaryPromptTail ==
    "\n\nProvide a summary that captures:\n1. The main goals and objectives\n2. Key decisions made\n3. Important code changes or implementations\n4. Any errors encountered and how they were resolved\n5. Current state of the project\n\nFormat the summary as a clear, structured narrative."

\* the request of client.messages.create inside compactMessages
SummaryRequestV1(list) ==
    [max_tokens |-> 4096,
     messages |-> <<[role |-> "user",
                     head |-> SummaryPromptHead,
                     conversationText |-> ConversationText(list),
                     tail |-> SummaryPromptTail]>>]

\* `[Previous conversation summarized]: ${summary}`
SummarizedContent(summary) ==
    <<"[","P","r","e","v","i","o","u","s"," ","c","o","n","v","e","r","s","a",
      "t","i","o","n"," ","s","u","m","m","a","r","i","z","e","d","]",":"," ">>
    \o summary

\* the list built on the success path: the system turns, the summary, the
\* first user turn if there is one, the last ten turns
CompactedV1(msgs, summary) ==
    SystemMsgs(msgs)
    \o <<Msg("assistant", SummarizedContent(summary))>>
    \o (IF FirstUserIndex(msgs) # 0 THEN <<msgs[FirstUserIndex(msgs)]>> ELSE <<>>)
    \o RecentMsgsV1(msgs)

\* compactMessages(messages) when the summarization request, if one is
\* issued, ends as `outcome` says.  Returns the list and the requests issued.
CompactMessagesV1(msgs, outcome) ==
    LET list == MessagesToSummarize(msgs)
    IN  IF Len(list) = 0
        THEN [result |-> msgs, requests |-> <<>>]
        ELSE IF outcome.ok
        THEN [result |-> CompactedV1(msgs, JoinText(outcome.content)),
              requests |-> <<SummaryRequestV1(list)>>]
        ELSE [result |-> msgs, requests |-> <<SummaryRequestV1(list)>>]

\* ---- executeTool and the request loop of part_001 ----

ContainerCrashedMark ==
    <<"C","o","n","t","a","i","n","e","r"," ","c","r","a","s","h","e","d">>

ContainerCrashedNotice ==
    ContainerCrashedMark
    \o <<"."," ","I","t"," ","w","i","l","l"," ","b","e"," ","r","e","c","r",
         "e","a","t","e","d"," ","o","n"," ","t","h","e"," ","n","e","x","t",
         " ","c","o","m","m","a","n","d",".">>

\* `Unknown tool: ${toolName}`
UnknownToolTextV1(name) == UnknownToolText \o <<":", " ">> \o NameText(name)

\* executeTool(toolName, toolInput, containerId): the object that is stringified
PayloadV1(keys, success, error, stdout, stderr, content, entries) ==
    [keys |-> keys, success |-> success, error |-> error, stdout |-> stdout,
     stderr |-> stderr, content |-> content, entries |-> entries,
     message |-> <<>>, exitCode |-> 0, containerCrashed |-> FALSE]

FailurePayloadV1(message) ==
    PayloadV1(<<"success", "error">>, "false", message, <<>>, <<>>, <<>>, <<>>)

\* `File written to ${path}`
FileWrittenText ==
    <<"F","i","l","e"," ","w","r","i","t","t","e","n"," ","t","o"," ">>
    \o ToolInput("writeFile")[1][2]

ExecuteToolV1(name, outcome) ==
    IF name \in FileTools
    THEN IF outcome # "ok" THEN FailurePayloadV1(FileErrorText)
         ELSE IF name = "readFile"
         THEN PayloadV1(<<"success", "content">>, "true", <<>>, <<>>, <<>>,
                        FileContent, <<>>)
         ELSE IF name = "writeFile"
         THEN [PayloadV1(<<"success", "message">>, "true", <<>>, <<>>, <<>>,
                         <<>>, <<>>)
                 EXCEPT !.message = FileWrittenText]
         ELSE PayloadV1(<<"success", "entries">>, "true", <<>>, <<>>, <<>>, <<>>,
                        DirEntries)
    ELSE IF name = "executeCommand"
    THEN LET result == ExecInContainer(outcome)
         IN  IF ~result.thrown
             THEN [PayloadV1(<<"success", "stdout", "stderr", "exitCode">>, "true",
                             <<>>, result.stdout, result.stderr, <<>>, <<>>)
                     EXCEPT !.exitCode = IF result.stderr # <<>> THEN 1 ELSE 0]
             ELSE IF Includes(result.message, ContainerCrashedMark)
             THEN [PayloadV1(<<"success", "error", "containerCrashed">>, "false",
                             ContainerCrashedNotice, <<>>, <<>>, <<>>, <<>>)
                     EXCEPT !.containerCrashed = TRUE]
             ELSE FailurePayloadV1(result.message)
    ELSE PayloadV1(<<"error">>, "absent", UnknownToolTextV1(name), <<>>, <<>>,
                   <<>>, <<>>)

\* the toolResults array after the for loop over response.content
RECURSIVE ToolResultsV1(_, _)
ToolResultsV1(content, outcomes) ==
    IF content = <<>> THEN <<>>
    ELSE (IF IsToolUse(Head(content))
          THEN <<[type |-> "tool_result", tool_use_id |-> Head(content).id,
                  content |-> ExecuteToolV1(Head(content).name, Head(outcomes))]>>
          ELSE <<>>)
         \o ToolResultsV1(Tail(content), Tail(outcomes))

\* currentMessages after the two pushes of `if (hasToolUse)`
NextMsgsV1(msgs, content, outcomes) ==
    IF HasToolUse(content)
    THEN msgs \o <<BlockMsg("assistant", content),
                   BlockMsg("user", ToolResultsV1(content, outcomes))>>
    ELSE msgs

\* the error ensureDockerContainer throws when the container cannot be created
EnsureError ==
    [hasMessage |-> TRUE,
     message |-> <<"F","a","i","l","e","d"," ","t","o"," ","c","r","e","a","t",
                   "e"," ","D","o","c","k","e","r"," ","c","o","n","t","a","i",
                   "n","e","r",":"," ","E","r","r","o","r",":"," ">>
                 \o CommandFailedText]

\* the calls of the request loop, as a test double would record them
RequestEventV1(req, ret) ==
    [call |-> "messages.create", arg |-> req, keepLast |-> 0, ret |-> ret]
ExecEventV1(container, outcome) ==
    [call |-> "execInContainer", arg |-> container, keepLast |-> 0,
     ret |-> ExecInContainer(outcome)]
EnsureEventV1(result, container) ==
    [call |-> "ensureDockerContainer", arg |-> SessionId, keepLast |-> 0,
     ret |-> [thrown |-> result = "failed", container |-> container]]
CompactEventV1(core, r) ==
    [call |-> "compactMessages", arg |-> core, keepLast |-> 0, ret |-> r.result]

\* the for loop over the blocks of one response, begun with `container`:
\* each tool_use block is executed and, when its result says
\* containerCrashed, ensureDockerContainer is awaited at once and its id
\* replaces containerId; `ensured` says how each of these calls ends
RECURSIVE RunBlocksV1(_, _, _, _)
RunBlocksV1(content, outcomes, ensured, container) ==
    IF content = <<>>
    THEN [container |-> container, events |-> <<>>, thrown |-> FALSE]
    ELSE LET block == Head(content)
             crashed == /\ IsToolUse(block)
                        /\ ExecuteToolV1(block.name, Head(outcomes)).containerCrashed
             next == IF crashed THEN EnsuredContainer(container, Head(ensured))
                     ELSE container
             here == (IF IsToolUse(block) /\ block.name = "executeCommand"
                      THEN <<ExecEventV1(container, Head(outcomes))>> ELSE <<>>)
                     \o (IF crashed THEN <<EnsureEventV1(Head(ensured), next)>>
                         ELSE <<>>)
         IN  IF crashed /\ Head(ensured) = "failed"
             THEN [container |-> container, events |-> here, thrown |-> TRUE]
             ELSE LET rest == RunBlocksV1(Tail(content), Tail(outcomes),
                                          Tail(ensured), next)
                  IN  [container |-> rest.container,
                       events |-> here \o rest.events,
                       thrown |-> rest.thrown]

\* the while loop of the try block, begun with currentMessages `current`,
\* containerId `container` and finalResponse `text`; `steps` says how each
\* request ends.  Returns finalResponse and containerId when the loop is
\* left, the calls made, and the error when it is left by a throw.
RECURSIVE RunLoopV1(_, _, _, _)
RunLoopV1(current, container, text, steps) ==
    LET step == Head(steps)
    IN  IF ~step.ok
        THEN [thrown |-> TRUE, error |-> step.error, container |-> container,
              finalResponse |-> text,
              events |-> <<RequestEventV1(current, [ok |-> FALSE, error |-> step.error])>>]
        ELSE LET ret == [ok |-> TRUE, content |-> step.content,
                         stop_reason |-> step.stop_reason]
                 blocks == RunBlocksV1(step.content, step.outcomes, step.ensured,
                                       container)
                 text1 == text \o ResponseText(step.content)
                 events1 == <<RequestEventV1(current, ret)>> \o blocks.events
             IN  IF blocks.thrown
                 THEN [thrown |-> TRUE, error |-> EnsureError,
                       container |-> blocks.container, finalResponse |-> text1,
                       events |-> events1]
                 ELSE IF LoopsAgain(step.content, step.stop_reason)
                 THEN LET rest == RunLoopV1(NextMsgsV1(current, step.content,
                                                       step.outcomes),
                                            blocks.container, text1, Tail(steps))
                      IN  [rest EXCEPT !.events = events1 \o rest.events]
                 ELSE [thrown |-> FALSE, error |-> EnsureError,
                       container |-> blocks.container, finalResponse |-> text1,
                       events |-> events1]

\* ---- what the outside world can hand to the loop ----
\* the long line is typed in the last user turn only
InputTextsV1(turn) == IF turn = MaxUserTurns - 1 THEN InputTexts \cup {<<Filler>>} ELSE InputTexts

\* how the summarization request can end; none is issued when there is no
\* turn to summarize
SummaryOutcomesV1(core) ==
    IF MessagesToSummarize(core) # <<>> THEN AgentSummaryOutcomes
    ELSE {[ok |-> FALSE, content |-> <<>>]}

\* how the ensureDockerContainer call after a crashed command ends
EnsureOutcomes == {"restarted", "recreated", "failed"}

\* a response that ends the loop with its text
TextSteps ==
    {[ok |-> TRUE, content |-> <<ChatText(t)>>, stop_reason |-> "end_turn",
      outcomes |-> <<"none">>, ensured |-> <<"none">>, error |-> EnsureError] :
        t \in ResponseTexts}

\* a request that throws
ErrorSteps ==
    {[ok |-> FALSE, content |-> <<>>, stop_reason |-> "", outcomes |-> <<>>,
      ensured |-> <<>>, error |-> e] : e \in ChatErrors}

\* how the ensureDockerContainer call of a block can end: it is made only
\* after a command that found the container crashed
EnsuredAfter(outcome) == IF outcome = "crashed" THEN EnsureOutcomes ELSE {"none"}

\* a response with a text block and two commands to run; the second
\* command is not run when ensureDockerContainer throws after the first
ToolSteps ==
    {[ok |-> TRUE,
      content |-> <<ChatText(<<"a">>), ToolUse("t1", "executeCommand"),
                    ToolUse("t2", "executeCommand")>>,
      stop_reason |-> s, outcomes |-> <<"none", o1, o2>>,
      ensured |-> <<"none", e1, e2>>, error |-> EnsureError] :
        s \in StopReasons, o1 \in ExecOutcomes, o2 \in ExecOutcomes \cup {"none"},
        e1 \in EnsureOutcomes \cup {"none"}, e2 \in EnsureOutcomes \cup {"none"}}

\* the steps the code can take: every ensured entry fits its outcome, and
\* nothing follows a call of ensureDockerContainer that throws
PossibleToolSteps ==
    {t \in ToolSteps :
        /\ t.ensured[2] \in EnsuredAfter(t.outcomes[2])
        /\ IF t.ensured[2] = "failed"
           THEN t.outcomes[3] = "none" /\ t.ensured[3] = "none"
           ELSE /\ t.outcomes[3] \in ExecOutcomes
                /\ t.ensured[3] \in EnsuredAfter(t.outcomes[3])}

\* a tool step after which the while loop sends another request
GoesOn(t) ==
    /\ LoopsAgain(t.content, t.stop_reason)
    /\ \A i \in 1..Len(t.ensured) : t.ensured[i] # "failed"

\* the requests of one user turn: tools are used in the first MaxToolTurns
\* user turns only, in at most one response
StepsIn(turn) ==
    {<<f>> : f \in TextSteps \cup ErrorSteps}
    \cup (IF turn <= MaxToolTurns
          THEN {<<t>> : t \in {u \in PossibleToolSteps : ~GoesOn(u)}}
               \cup {<<t, f>> : t \in {u \in PossibleToolSteps : GoesOn(u)},
                                f \in TextSteps \cup ErrorSteps}
          ELSE {})

\* ---- main() of part_001 ----

\* a new session, or one with HistoryV1 saved turns
InitV1 == StartedWith({0, HistoryV1})

\* rl.question resolves with a line: exit, a blank line, or a user turn that
\* is saved and pushed, followed by the compaction check on the estimate and
\* by the container health check
UserInputV1 ==
    /\ pc = "ask"
    /\ userTurns < MaxUserTurns
    /\ \E input \in InputTextsV1(userTurns), health \in HealthOutcomes :
          IF IsExit(input)
          THEN /\ pc' = "exited"
               /\ UNCHANGED <<dbVars, messages, attempt, lastInputTokens,
                              containerId, userTurns, log, fault>>
          ELSE IF IsBlank(input)
          THEN UNCHANGED <<dbVars, agentVars>>
          ELSE LET rows1 == SaveMessage(store, SessionId, "user", input)
                   msgs1 == Append(messages, Msg("user", input))
                   coreMessages == ToCore(msgs1)
               IN  /\ IF ShouldCompactMessages(SizedOf(coreMessages))
                      THEN \E outcome \in SummaryOutcomesV1(coreMessages) :
                              LET r == CompactMessagesV1(coreMessages, outcome)
                              IN  /\ store' = SaveCompactedMessages(rows1, SessionId,
                                                                    r.result)
                                  /\ messages' = WorkingList(r.result)
                                  /\ log' = <<SaveMessageEvent("user", input),
                                              CompactEventV1(coreMessages, r),
                                              SaveCompactedEvent(r.result)>>
                      ELSE /\ store' = rows1
                           /\ messages' = msgs1
                           /\ log' = <<SaveMessageEvent("user", input)>>
                   /\ sessions' = TouchSession(sessions, SessionId)
                   /\ userTurns' = userTurns + 1
                   /\ containerId' = EnsuredContainer(containerId, health)
                   /\ pc' = IF health = "failed" THEN "crashed" ELSE "chat"
                   /\ fault' = [NoFault EXCEPT !.count = fault.count]
                   /\ UNCHANGED <<attempt, lastInputTokens>>
    /\ UNCHANGED <<compactVars, storeVars, auxVars>>

\* the try block runs to its end: the request loop is left by `break`, and
\* finalResponse is saved and pushed unless it is blank
LoopReturnsV1 ==
    /\ pc = "chat"
    /\ \E steps \in StepsIn(userTurns) :
          LET run == RunLoopV1(messages, containerId, <<>>, steps)
              keep == Trim(run.finalResponse) # <<>>
          IN  /\ ~run.thrown
              /\ store' = IF keep
                          THEN SaveMessage(store, SessionId, "assistant", run.finalResponse)
                          ELSE store
              /\ sessions' = IF keep THEN TouchSession(sessions, SessionId) ELSE sessions
              /\ messages' = IF keep
                             THEN Append(messages, Msg("assistant", run.finalResponse))
                             ELSE messages
              /\ log' = log \o run.events
                        \o (IF keep
                            THEN <<SaveMessageEvent("assistant", run.finalResponse)>>
                            ELSE <<>>)
              /\ containerId' = run.container
              /\ pc' = "ask"
    /\ UNCHANGED <<attempt, lastInputTokens, userTurns, fault,
                   compactVars, storeVars, auxVars>>

\* a request or a call of ensureDockerContainer throws inside the try
\* block: the catch block saves and pushes `Error: ${error.message}`
LoopThrowsV1 ==
    /\ pc = "chat"
    /\ \E steps \in StepsIn(userTurns) :
          LET run == RunLoopV1(messages, containerId, <<>>, steps)
              errorMessage == ErrorContent(run.error)
          IN  /\ run.thrown
              /\ store' = SaveMessage(store, SessionId, "assistant", errorMessage)
              /\ sessions' = TouchSession(sessions, SessionId)
              /\ messages' = Append(messages, Msg("assistant", errorMessage))
              /\ log' = log \o run.events
                        \o <<SaveMessageEvent("assistant", errorMessage)>>
              /\ containerId' = run.container
              /\ pc' = "ask"
    /\ UNCHANGED <<attempt, lastInputTokens, userTurns, fault,
                   compactVars, storeVars, auxVars>>

NextV1 == UserInputV1 \/ LoopReturnsV1 \/ LoopThrowsV1 \/ Resume

SpecV1 == InitV1 /\ [][NextV1]_vars

----------------------------------------------------------------------------
(* What the loop of part_001 does where it differs from main() and chat()  *)
(* of src/index.ts (checked under SpecV1)                                  *)

RequestIdxV1 == {i \in 1..Len(log) : log[i].call = "messages.create"}
ExecIdxV1 == {i \in 1..Len(log) : log[i].call = "execInContainer"}
EnsureIdxV1 == {i \in 1..Len(log) : log[i].call = "ensureDockerContainer"}

\* the error that ended the try block of the turn, if one did
ThrownInTurnV1 ==
    {log[i].ret.error : i \in {j \in RequestIdxV1 : ~log[j].ret.ok}}
    \cup {EnsureError : i \in {j \in EnsureIdxV1 : log[j].ret.thrown}}

\* a request or a call of ensureDockerContainer that throws ends the turn:
\* no request follows it, whatever the error says, and `Error: ...` is the
\* last stored turn of the session and the last turn of the working list
V1_ErrorEndsTurnAndIsStored ==
    (pc = "ask" /\ ThrownInTurnV1 # {}) =>
        \E error \in ThrownInTurnV1 :
            LET turn == Msg("assistant", ErrorContent(error))
            IN  /\ Cardinality(ThrownInTurnV1) = 1
                /\ \A i \in RequestIdxV1 : ~log[i].ret.ok => \A j \in RequestIdxV1 : j <= i
                /\ log[Len(log)] = SaveMessageEvent("assistant", ErrorContent(error))
                /\ messages[Len(messages)] = turn
                /\ \A saved \in LoadMessages(store, SessionId) :
                       saved[Len(saved)] = turn
                /\ \A i \in 1..Len(log) :
                       log[i].call \in {"compactMessages", "saveCompactedMessages"} => i <= 3

\* the user types hi in a new session and the request throws `timeout`
V1_TimeoutIsStored ==
    /\ pc = "ask"
    /\ SessionRows(store, SessionId)
         = <<Row(SessionId, 0, "user", <<"h","i">>),
             Row(SessionId, 1, "assistant",
                 <<"E","r","r","o","r",":"," ","t","i","m","e","o","u","t">>)>>
    /\ messages = <<Msg("user", <<"h","i">>),
                    Msg("assistant",
                        <<"E","r","r","o","r",":"," ","t","i","m","e","o","u","t">>)>>
    /\ Len(log) = 3
    /\ log[2].call = "messages.create" /\ ~log[2].ret.ok
    /\ log[3].call = "saveMessage"
    /\ attempt = 0

\* whenever main() waits for the next user input, the working list is the
\* list of non-system turns loadMessages returns for the session
V1_WorkingListIsStored ==
    pc = "ask" =>
        \E saved \in LoadMessages(store, SessionId) : messages = WorkingList(saved)

\* a command that finds the container crashed is followed at once by a call
\* of ensureDockerContainer, and every later command of the turn runs in the
\* container that call returned
V1_CrashedContainerReplacedAtOnce ==
    /\ \A i \in ExecIdxV1 :
          log[i].ret.thrown => (i + 1) \in EnsureIdxV1
    /\ \A i \in EnsureIdxV1 : (i - 1) \in ExecIdxV1 /\ log[i - 1].ret.thrown
    /\ \A i \in EnsureIdxV1, j \in ExecIdxV1 :
          (/\ i < j
           /\ \A k \in EnsureIdxV1 : ~(i < k /\ k < j))
          => /\ ~log[i].ret.thrown
             /\ log[j].arg = log[i].ret.container
    /\ (pc = "ask" /\ EnsureIdxV1 # {}) =>
          \E i \in EnsureIdxV1 :
              /\ \A k \in EnsureIdxV1 : k <= i
              /\ containerId = log[i].ret.container

\* the second command of a response runs in the container created after
\* the first one found the container crashed
V1_SecondCommandInNewContainer ==
    /\ pc = "ask"
    /\ \E i \in ExecIdxV1 :
          /\ log[i].ret.thrown
          /\ (i + 2) \in ExecIdxV1
          /\ log[i + 1].ret.container # log[i].arg
          /\ log[i + 2].arg = log[i + 1].ret.container
          /\ containerId = log[i + 2].arg

\* compaction is decided before the request, on the estimate of the working
\* list with the new user turn, and never after a response: the calls of a
\* turn hold compactMessages exactly when the estimate is over the limit,
\* as their second call, followed by saveCompactedMessages of what it returned
V1_CompactsBeforeRequestOnEstimate ==
    log # <<>> =>
        LET core == ToCore(Append(IF Len(log) >= 2 /\ log[2].call = "compactMessages"
                                  THEN SubSeq(log[2].arg, 1, Len(log[2].arg) - 1)
                                  ELSE <<>>,
                                  log[1].arg[1]))
        IN  /\ log[1].call = "saveMessage"
            /\ \A i \in 1..Len(log) :
                   log[i].call = "compactMessages" =>
                       /\ i = 2
                       /\ ShouldCompactMessages(SizedOf(log[i].arg))
                       /\ log[i].arg = core
                       /\ Len(log) >= 3
                       /\ log[3] = SaveCompactedEvent(log[2].ret)
            /\ \A i \in RequestIdxV1 :
                   /\ (\A j \in 1..Len(log) : log[j].call # "compactMessages")
                        => ~ShouldCompactMessages(SizedOf(ToCore(
                                SelectSeq(log[i].arg, IsTextTurn))))
                   /\ \A j \in 1..Len(log) :
                          log[j].call \in {"compactMessages", "saveCompactedMessages"}
                              => j < i

\* a turn list over the limit is compacted: the summary stands before the
\* first user turn and the last ten turns
V1_CompactedOverLimit ==
    /\ Len(log) >= 3
    /\ log[2].call = "compactMessages"
    /\ Len(log[2].arg) > RecentCount + 2
    /\ log[2].ret = CompactedV1(log[2].arg, <<"s">>)
    /\ Len(log[2].ret) = RecentCount + 2
    /\ pc = "ask"

\* a turn list over the limit with no turn to summarize, or whose summary
\* request fails, is handed unchanged to saveCompactedMessages
V1_CompactionKeepsEveryTurn ==
    /\ Len(log) >= 3
    /\ log[2].call = "compactMessages"
    /\ log[2].ret = log[2].arg
    /\ log[3] = SaveCompactedEvent(log[2].arg)
    /\ pc = "ask"

----------------------------------------------------------------------------
(* SpecFaultV1: the loop of part_001 with storage calls that throw          *)

\* the writes of saveCompactedMessages(list) that are made to throw: the
\* delete of clearMessages, the insert of the first turn, the insert of the
\* last turn
FailingWritesV1(list) == {0, 1, Len(list)}

\* the saveCompactedMessages of the compaction check throws: outside the try
\* block, the error leaves main()
CompactedSaveFailsV1 ==
    /\ pc = "ask"
    /\ fault.count < MaxFaults
    /\ userTurns < MaxUserTurns
    /\ \E input \in InputTextsV1(userTurns), error \in StorageErrors :
          LET rows1 == SaveMessage(store, SessionId, "user", input)
              msgs1 == Append(messages, Msg("user", input))
              coreMessages == ToCore(msgs1)
          IN  /\ ~IsExit(input) /\ ~IsBlank(input)
              /\ ShouldCompactMessages(SizedOf(coreMessages))
              /\ \E outcome \in SummaryOutcomesV1(coreMessages) :
                    LET r == CompactMessagesV1(coreMessages, outcome)
                    IN  /\ \E at \in FailingWritesV1(r.result) :
                              store' = SaveCompactedFails(rows1, SessionId, r.result, at)
                        /\ log' = <<SaveMessageEvent("user", input),
                                    CompactEventV1(coreMessages, r),
                                    SaveCompactedEvent(r.result)>>
              /\ messages' = msgs1
              /\ fault' = Fault("compaction", error)
    /\ sessions' = TouchSession(sessions, SessionId)
    /\ userTurns' = userTurns + 1
    /\ pc' = "crashed"
    /\ UNCHANGED <<attempt, lastInputTokens, containerId,
                   compactVars, storeVars, auxVars>>

\* the request loop is left by `break` and saveMessage(currentSessionId,
\* "assistant", finalResponse) throws: inside the try block, so the catch
\* block saves and pushes the text of the storage error
ResponseSaveFailsV1 ==
    /\ pc = "chat"
    /\ fault.count < MaxFaults
    /\ \E steps \in StepsIn(userTurns), error \in StorageErrors,
          at \in SaveMessageSteps :
          LET run == RunLoopV1(messages, containerId, <<>>, steps)
              rows1 == SaveMessageFails(store, SessionId, "assistant",
                                        run.finalResponse, at)
              errorMessage == ErrorContent(error)
          IN  /\ ~run.thrown
              /\ Trim(run.finalResponse) # <<>>
              /\ store' = SaveMessage(rows1, SessionId, "assistant", errorMessage)
              /\ messages' = Append(messages, Msg("assistant", errorMessage))
              /\ log' = log \o run.events
                        \o <<SaveMessageEvent("assistant", run.finalResponse),
                             SaveMessageEvent("assistant", errorMessage)>>
              /\ containerId' = run.container
              /\ fault' = Fault("assistant", error)
    /\ sessions' = TouchSession(sessions, SessionId)
    /\ pc' = "ask"
    /\ UNCHANGED <<attempt, lastInputTokens, userTurns,
                   compactVars, storeVars, auxVars>>

\* the saveMessage of the catch block throws: the error leaves main()
ErrorSaveFailsV1 ==
    /\ pc = "chat"
    /\ fault.count < MaxFaults
    /\ \E steps \in StepsIn(userTurns), error \in StorageErrors,
          at \in SaveMessageSteps :
          LET run == RunLoopV1(messages, containerId, <<>>, steps)
              errorMessage == ErrorContent(run.error)
          IN  /\ run.thrown
              /\ store' = SaveMessageFails(store, SessionId, "assistant",
                                           errorMessage, at)
              /\ log' = log \o run.events
                        \o <<SaveMessageEvent("assistant", errorMessage)>>
              /\ containerId' = run.container
              /\ fault' = Fault("error", error)
    /\ pc' = "crashed"
    /\ UNCHANGED <<sessions, messages, attempt, lastInputTokens, userTurns,
                   compactVars, storeVars, auxVars>>

NextFaultV1 ==
    \/ UserInputV1
    \/ LoopReturnsV1
    \/ LoopThrowsV1
    \/ Resume
    \/ UserSaveFails
    \/ CompactedSaveFailsV1
    \/ ResponseSaveFailsV1
    \/ ErrorSaveFailsV1

SpecFaultV1 == InitV1 /\ [][NextFaultV1]_vars

\* when a storage call throws outside the try block, or in the catch block,
\* the error leaves main() and the failing call is the last call of the turn;
\* when the saveMessage of the response throws, the catch block stores the
\* text of the storage error as an assistant turn and main() asks again
V1_StorageFailure ==
    fault.site # "none" =>
        IF fault.site = "assistant"
        THEN /\ pc \in {"ask", "exited"}
             /\ messages[Len(messages)] = Msg("assistant", ErrorContent(fault.error))
             /\ \A saved \in LoadMessages(store, SessionId) :
                    saved[Len(saved)] = Msg("assistant", ErrorContent(fault.error))
        ELSE /\ pc = "crashed"
             /\ log[Len(log)].call \in {"saveMessage", "saveCompactedMessages"}

\* the response was stored before the statement of saveMessage that threw:
\* the store holds it, the working list does not
V1_ResponseStoredNotListed ==
    /\ fault.site = "assistant"
    /\ pc = "ask"
    /\ \E saved \in LoadMessages(store, SessionId) :
          /\ Len(saved) = Len(messages) + 1
          /\ saved[Len(saved) - 1].content = <<"o","k">>
          /\ messages[Len(messages) - 1].role = "user"

====
